---- MODULE Spec2Model ----
(***************************************************************************)
(* rag-toXiv: the mention-polling reply bot (rag_toXiv_reply_bot.py), the  *)
(* snapshot store (save_daily_json.py) and the feed fetcher                *)
(* (rag_arXiv_daily_feed.py), as three state machines over one set of      *)
(* variables.  SpecPoller, SpecStore and SpecFetch each run one of them    *)
(* and hold the variables of the other two at their initial values.        *)
(***************************************************************************)
EXTENDS Integers, Sequences, FiniteSets, TLC

VARIABLES
    \* ---- the reply bot (run_reply_bot / run_once) ----
    mode,           \* "daemon" (run_reply_bot) or "once" (run_once)
    dry_run,        \* the --dry-run flag of this process
    cat_max_files,  \* the files argument (--cat-max-files), CAT_MAX_FILES by default
    pc,             \* the bot's position in run_reply_bot / run_once
    processed,      \* the in-memory set `processed`
    pfile,          \* processed_notifications.json: [exists, ids], ids the JSON array in it
    inbox,          \* the platform's mention notifications for the bot account
    notifications,  \* the list returned by mastodon.notifications
    idx,            \* position of the for loop in `notifications`
    cur,            \* locals of the loop body: category, papers, reply_text
    reply_posted,   \* per mention id: status_reply calls that returned (replies on the platform)
    post_calls,     \* per mention id: status_reply calls made
    llm_calls,      \* per mention id: generate_reply calls made
    feed_loads,     \* per mention id: load_feeds calls made
    last_post,      \* arguments of the status_reply call the last step made, if any
    passes,         \* mastodon.notifications calls made so far
    restarts,       \* process starts after the first
    post_gap,       \* what has gone by since the last status_reply call
    dry_reported,   \* mention ids whose reply a dry run has printed instead of posting
    dry_recorded,   \* mention ids a dry run has added to `processed` after printing the reply
    \* ---- the snapshot store (DATA_DIR) ----
    store,          \* file name -> file content, Absent where no file exists
    call,           \* the store operation that has just returned: arguments and result
    prev,           \* the store as it was when that operation was called
    \* ---- the feed fetcher (daily_entries) ----
    arxiv_max_trial,  \* the configured number of attempts of one call
    fpc,            \* position in daily_entries
    cat,            \* the category argument of the call
    trial_num,      \* the local trial_num
    retrieved,      \* the feeds afpa.retrieve has returned in this call, in order
    sleeps,         \* time.sleep(arxiv_call_sleep) calls made in this call
    returned,       \* <<feed>> once the call has returned feed, else <<>>
    elapsed,        \* the limiter's clock() - last_reset, in seconds
    num_calls,      \* the limiter's num_calls
    since_admit,    \* seconds since the limiter last let a call into daily_entries
    since_retrieve, \* seconds since afpa.retrieve was last called
    \* ---- the context builder (build_context, first_sentence) ----
    eval,           \* the call under way: function, arguments, result
    \* ---- two bot processes on one LOG_DIR ----
    instances,      \* per process: place in run_reply_bot and its locals
    lost,           \* identifiers a save removed from the processed file
    late,           \* identifiers replied to by a process that loaded the file without them
    \* ---- the interactive session (run_cli) ----
    cli             \* current_category, mode, current_files and the command just handled

botVars == <<mode, dry_run, cat_max_files, pc, processed, pfile, inbox, notifications, idx, cur,
             reply_posted, post_calls, llm_calls, feed_loads, last_post,
             passes, restarts, post_gap, dry_reported, dry_recorded>>

storeVars == <<store, call, prev>>

fetchVars == <<arxiv_max_trial, fpc, cat, trial_num, retrieved, sleeps, returned,
               elapsed, num_calls, since_admit, since_retrieve>>

twoVars == <<instances, lost, late>>
vars == <<botVars, storeVars, fetchVars, eval, twoVars, cli>>

(***************************************************************************)
(* Program constants (rag_toXiv_variables.py)                              *)
(***************************************************************************)
MAX_TOOT_LENGTH == 5000
CutLength == 200
arxiv_call_limit == 1
arxiv_call_period == 5
arxiv_call_sleep == 2 * 60
DEFAULT_CATEGORY == "cs.LG"
CAT_MAX_FILES == 1
SKIP_EMPTY == TRUE

(***************************************************************************)
(* Bounds of the model                                                     *)
(***************************************************************************)
MaxPasses == 2      \* mastodon.notifications calls over the whole run
MaxRestarts == 1    \* process restarts
MaxBatch == 2       \* length of one notifications list
MaxDay == 3         \* file-name dates are the days 1..MaxDay
MaxFiles == 3       \* files DATA_DIR holds at once
MaxKeep == 2        \* largest max_files passed to cleanup_by_cat_max_files
MaxTrial == 3       \* largest arxiv_max_trial a fetcher is configured with
MaxLoad == 2        \* largest files argument the bot is started with
MaxRuns == 4        \* runs of equal characters in an abstract

None == "none"

(***************************************************************************)
(* Texts.  A text is a run-length sequence <<<<char, count>>, ...>> with   *)
(* no two adjacent runs of the same character, so that len(), slicing and  *)
(* concatenation are computed on replies of thousands of characters.       *)
(***************************************************************************)
RECURSIVE TextLen(_)
TextLen(t) == IF t = <<>> THEN 0 ELSE Head(t)[2] + TextLen(Tail(t))

\* t[:k] for k >= 0
RECURSIVE TextSlice(_, _)
TextSlice(t, k) ==
    IF k <= 0 \/ t = <<>> THEN <<>>
    ELSE IF Head(t)[2] <= k
         THEN <<Head(t)>> \o TextSlice(Tail(t), k - Head(t)[2])
         ELSE << <<Head(t)[1], k>> >>

\* s + t
TextConcat(s, t) ==
    IF s = <<>> THEN t
    ELSE IF t = <<>> THEN s
    ELSE IF s[Len(s)][1] = t[1][1]
         THEN SubSeq(s, 1, Len(s) - 1)
              \o << <<t[1][1], s[Len(s)][2] + t[1][2]>> >>
              \o Tail(t)
         ELSE s \o t

Ellipsis == << <<".", 3>> >>

\* Truncate with the cut taken at the limit itself, the "..." then added to it
Truncate_CutAtLimit(reply_text) ==
    IF TextLen(reply_text) > MAX_TOOT_LENGTH - 100
    THEN TextConcat(TextSlice(reply_text, MAX_TOOT_LENGTH - 100), Ellipsis)
    ELSE reply_text

\* lines 422-423 / 514-515:
\*   if len(reply_text) > MAX_TOOT_LENGTH - 100:
\*       reply_text = reply_text[: MAX_TOOT_LENGTH - 103] + "..."
Truncate(reply_text) ==
    IF TextLen(reply_text) > MAX_TOOT_LENGTH - 100
    THEN TextConcat(TextSlice(reply_text, MAX_TOOT_LENGTH - 103), Ellipsis)
    ELSE reply_text

(***************************************************************************)
(* Snapshot files.  A file name "<prefix>_<category>.json" is the pair     *)
(* <<prefix, category>>; a prefix is an integer that orders the names as   *)
(* the strings are ordered: the days 1..MaxDay stand for YYYY-MM-DD dates, *)
(* BadPrefix for a prefix that strptime("%Y-%m-%d") rejects.  Of a file's  *)
(* content the code reads the "papers" list only: a file is Json(papers),  *)
(* or Corrupt when json.load fails on it.                                  *)
(***************************************************************************)
Cats == {"cs.LG", "math.CO", "cs.AI"}
Days == 1..MaxDay
BadPrefix == 0
Prefixes == Days \cup {BadPrefix}
Names == Prefixes \X Cats
Absent == [kind |-> "absent", papers |-> <<>>]
Corrupt == [kind |-> "corrupt", papers |-> <<>>]
Json(papers) == [kind |-> "json", papers |-> papers]
PaperLists == {<<>>, <<1>>, <<2>>}

EmptyStore == [n \in Names |-> Absent]

\* glob.glob(os.path.join(DATA_DIR, f"*_{category.replace('.', '_')}.json"))
Glob(st, category) == {n \in Names : n[2] = category /\ st[n] # Absent}

\* sorted(names, reverse=True): newest name first
RECURSIVE SortedDesc(_)
SortedDesc(S) ==
    IF S = {} THEN <<>>
    ELSE LET top == CHOOSE n \in S : \A m \in S : m[1] <= n[1]
         IN  <<top>> \o SortedDesc(S \ {top})

\* the loop of load_feeds counting the empty files it skips
RECURSIVE LoadLoop_CountsEmpty(_, _, _, _, _, _)
LoadLoop_CountsEmpty(st, file_list, files, skip_empty, loaded_count, all_papers) ==
    IF file_list = <<>> \/ loaded_count >= files
    THEN [raised |-> FALSE, papers |-> all_papers]
    ELSE LET data == st[Head(file_list)] IN
         IF data = Corrupt
         THEN [raised |-> TRUE, papers |-> <<>>]
         ELSE LoadLoop_CountsEmpty(st, Tail(file_list), files, skip_empty,
                                   loaded_count + 1, all_papers \o data.papers)

\* The for loop of load_feeds over file_list, from loaded_count and all_papers.
\* json.load on a corrupt file raises out of load_feeds.
RECURSIVE LoadLoop(_, _, _, _, _, _)
LoadLoop(st, file_list, files, skip_empty, loaded_count, all_papers) ==
    IF file_list = <<>> \/ loaded_count >= files
    THEN [raised |-> FALSE, papers |-> all_papers]
    ELSE LET data == st[Head(file_list)] IN
         IF data = Corrupt
         THEN [raised |-> TRUE, papers |-> <<>>]
         ELSE IF data.papers = <<>> /\ skip_empty
              THEN LoadLoop(st, Tail(file_list), files, skip_empty,
                            loaded_count, all_papers)
              ELSE LoadLoop(st, Tail(file_list), files, skip_empty,
                            loaded_count + 1, all_papers \o data.papers)

\* The files the loop of load_feeds takes papers from: those it passes to
\* all_papers.extend and counts in loaded_count.
RECURSIVE LoadLoopFiles(_, _, _, _, _, _)
LoadLoopFiles(st, file_list, files, skip_empty, loaded_count, loaded) ==
    IF file_list = <<>> \/ loaded_count >= files
    THEN [raised |-> FALSE, files |-> loaded]
    ELSE LET data == st[Head(file_list)] IN
         IF data = Corrupt
         THEN [raised |-> TRUE, files |-> {}]
         ELSE IF data.papers = <<>> /\ skip_empty
              THEN LoadLoopFiles(st, Tail(file_list), files, skip_empty,
                                 loaded_count, loaded)
              ELSE LoadLoopFiles(st, Tail(file_list), files, skip_empty,
                                 loaded_count + 1, loaded \cup {Head(file_list)})

load_feeds(st, category, files, skip_empty) ==
    LoadLoop(st, SortedDesc(Glob(st, category)), files, skip_empty, 0, <<>>)

(***************************************************************************)
(* Mentions.  The content of a status is a sequence of words; "@..." is a  *)
(* mention reference, a category word matches [a-z]{2,4}\.[A-Z]{2}.        *)
(***************************************************************************)
\* is_help_request, lines 226-233
help_triggers ==
    {"help", "?", "how do i use", "what can you do", "commands", "usage"}

\* str.lower() on the words that occur in the mentions
text_lower(w) ==
    IF w = "Helpful" THEN "helpful"
    ELSE IF w = "cs.AI" THEN "cs.ai"
    ELSE IF w = "math.CO" THEN "math.co"
    ELSE w

\* `trigger in w`: trigger is a substring of w
occurs(trigger, w) ==
    \/ trigger = w
    \/ trigger = "help" /\ w = "helpful"
IsMentionRef(w) == w \in {"@bot"}
IsCategoryWord(w) == w \in Cats

Mentions == [
    m1 |-> [visibility |-> "public",   content |-> <<"@bot", "summarize">>],
    m2 |-> [visibility |-> "unlisted", content |-> <<"@bot", "cs.AI", "math.CO">>],
    m3 |-> [visibility |-> "direct",   content |-> <<"@bot", "summarize">>],
    m4 |-> [visibility |-> "private",  content |-> <<"@bot", "help">>],
    m5 |-> [visibility |-> "public",   content |-> <<"@bot", "Helpful", "math.CO">>],
    m6 |-> [visibility |-> "unlisted", content |-> <<"@bot">>],
    m7 |-> [visibility |-> "public",   content |-> <<"@bot", "math.CO", "news">>]
]
Ids == DOMAIN Mentions

\* re.sub(r"@\S+", "", text).strip()
RECURSIVE strip_mentions(_)
strip_mentions(text) ==
    IF text = <<>> THEN <<>>
    ELSE IF IsMentionRef(Head(text)) THEN strip_mentions(Tail(text))
         ELSE <<Head(text)>> \o strip_mentions(Tail(text))

\* is_help_request looking for the triggers in the text as it was written
is_help_request_CaseSensitive(text) ==
    \E i \in 1..Len(text) : \E trigger \in help_triggers : occurs(trigger, text[i])

\* any(trigger in text_lower for trigger in help_triggers)
is_help_request(text) ==
    \E i \in 1..Len(text) :
        \E trigger \in help_triggers : occurs(trigger, text_lower(text[i]))

\* re.search(r"\b([a-z]{2,4}\.[A-Z]{2})\b", text): the first match, else the default
RECURSIVE extract_category_from_message(_)
extract_category_from_message(text) ==
    IF text = <<>> THEN DEFAULT_CATEGORY
    ELSE IF IsCategoryWord(Head(text)) THEN Head(text)
         ELSE extract_category_from_message(Tail(text))

\* the visibility test with only "private" refused
Eligible_DirectPasses(id) == Mentions[id].visibility # "private"

\* status["visibility"] in ["public", "unlisted"]
Eligible(id) == Mentions[id].visibility \in {"public", "unlisted"}
Question(id) == strip_mentions(Mentions[id].content)

\* The lists of mention notifications the platform can hold: distinct ids.
Batches ==
    {b \in UNION {[1..n -> Ids] : n \in 0..MaxBatch} :
        \A i, j \in 1..Len(b) : i # j => b[i] # b[j]}

(***************************************************************************)
(* The processed-identifiers file: json.dump(list(processed)) writes the   *)
(* set as an array, set(json.load(f)) reads the array back as a set.       *)
(***************************************************************************)
RECURSIVE SetToList(_)
SetToList(S) ==
    IF S = {} THEN <<>>
    ELSE LET x == CHOOSE y \in S : TRUE IN <<x>> \o SetToList(S \ {x})

ListToSet(l) == {l[i] : i \in 1..Len(l)}

NoFile == [exists |-> FALSE, ids |-> <<>>]

\* load_processed starting every process from the empty set
load_processed_IgnoresFile(file) == {}

\* if os.path.exists(processed_file): return set(json.load(f)); return set()
load_processed(file) == IF file.exists THEN ListToSet(file.ids) ELSE {}

\* save_processed keeping what the file holds
save_processed_Merging(set) ==
    [exists |-> TRUE, ids |-> SetToList(set \cup ListToSet(pfile.ids))]

\* with open(processed_file, "w") as f: json.dump(list(processed), f)
save_processed(set) == [exists |-> TRUE, ids |-> SetToList(set)]

(***************************************************************************)
(* The texts the bot can hand to Truncate: the help message and the        *)
(* no-data message grow with the list of available categories, the LLM     *)
(* reply is whatever the model returns.                                    *)
(***************************************************************************)
Txt(c, n) == << <<c, n>> >>
HelpTexts == {Txt("h", 330), Txt("h", 4901)}
NoDataTexts == {Txt("n", 80), Txt(".", 4900)}
LLMReplies == {Txt("a", 10), Txt("a", 4900), Txt("a", 4901),
               TextConcat(Txt("a", 4890), Txt(".", 2000))}

\* Values of the bot's variables that hold nothing
Modes == {"daemon", "once"}
NoCur == [category |-> None, papers |-> <<>>, reply_text |-> <<>>]
NoPost == [to |-> None, raw |-> <<>>, status |-> <<>>, visibility |-> None]
Zero == [i \in Ids |-> 0]

(***************************************************************************)
(* The context builder: first_sentence and build_context, applied to the   *)
(* abstracts, paper lists and modes below.                                 *)
(***************************************************************************)
Chars == {"a", ".", " ", "\n", "\t"}
RunLengths == {1, CutLength}

\* the abstracts: up to MaxRuns runs of a letter, periods, spaces, newlines
\* or tabs, each one character or CutLength characters long
Abstracts ==
    {t \in UNION {[1..n -> Chars \X RunLengths] : n \in 0..MaxRuns} :
        \A i \in 1..(Len(t) - 1) : t[i][1] # t[i + 1][1]}

\* a text written out in the source
Lit(str) == << <<str, 1>> >>

\* `end in text` for end = "." + c: the runs of periods followed by a run of c
Ends(text, c) ==
    {i \in 1..(Len(text) - 1) : text[i][1] = "." /\ text[i + 1][1] = c}

\* text.split("." + c)[0] + "."
SplitHead(text, c) ==
    SubSeq(text, 1, CHOOSE i \in Ends(text, c) : \A j \in Ends(text, c) : i <= j)

\* first_sentence, lines 124-127
first_sentence(text) ==
    IF Ends(text, " ") # {} THEN SplitHead(text, " ")
    ELSE IF Ends(text, "\n") # {} THEN SplitHead(text, "\n")
    ELSE IF Ends(text, "\t") # {} THEN SplitHead(text, "\t")
    ELSE TextConcat(TextSlice(text, CutLength), Ellipsis)

\* separator.join(lines)
RECURSIVE TextJoin(_, _)
TextJoin(lines, separator) ==
    IF lines = <<>> THEN <<>>
    ELSE IF Len(lines) = 1 THEN lines[1]
    ELSE TextConcat(TextConcat(lines[1], separator), TextJoin(Tail(lines), separator))

Modes3 == {"title", "first_sentence", "full_abstract"}
ModeArgs == Modes3 \cup {"summary", ""}

\* build_context, lines 138-149: the lines of the papers, or the ValueError
RECURSIVE ContextLines(_, _)
ContextLines(papers, mode_) ==
    IF papers = <<>> THEN [raised |-> FALSE, lines |-> <<>>]
    ELSE LET p == Head(papers)
             head == TextJoin(<<Lit("["), p.id, Lit("] "), p.title>>, <<>>)
             rest == ContextLines(Tail(papers), mode_)
             line == IF mode_ = "title" THEN head
                     ELSE IF mode_ = "first_sentence"
                     THEN TextJoin(<<head, Lit("\n"), Lit("Abstract: "),
                                     first_sentence(p.abstract)>>, <<>>)
                     ELSE TextJoin(<<head, Lit("\n"), Lit("Abstract: "),
                                     p.abstract>>, <<>>)
         IN  IF mode_ \notin Modes3 \/ rest.raised
             THEN [raised |-> TRUE, lines |-> <<>>]
             ELSE [raised |-> FALSE, lines |-> <<line>> \o rest.lines]

\* build_context, lines 130-152
build_context(papers, mode_) ==
    LET r == ContextLines(papers, mode_)
        separator == IF mode_ = "title" THEN Lit("\n") ELSE << <<"\n", 2>> >>
    IN  [raised |-> r.raised,
         out |-> IF r.raised THEN <<>> ELSE TextJoin(r.lines, separator)]

Paper1 ==
    [id |-> Lit("2401.00001"), title |-> Lit("On X"),
     abstract |-> << <<"a", 1>>, <<".", 1>>, <<" ", 1>>, <<"a", 1>>, <<".", 1>> >>]
Paper2 ==
    [id |-> Lit("2401.00002"), title |-> Lit("On Y"),
     abstract |-> << <<"a", CutLength>>, <<".", 1>> >>]
PaperArgs == {<<>>, <<Paper1>>, <<Paper1, Paper2>>}

NoEval ==
    [op |-> "none", text |-> <<>>, papers |-> <<>>, mode |-> "",
     raised |-> FALSE, out |-> <<>>]

\* the processes of the two-process runs, before they are started
Instances == {1, 2}
TwoIds == {"m1", "m7"}
NoInstance ==
    [pc |-> "off", processed |-> {}, notifications |-> <<>>, idx |-> 1,
     missed |-> {}, passes |-> 0, restarts |-> 0]
NoInstances == [i \in Instances |-> NoInstance]

(***************************************************************************)
(* The interactive session, run_cli: the three locals a command can        *)
(* change, and the command the loop has just handled.                      *)
(***************************************************************************)
NoCommand == [cmd |-> "none", arg |-> "", rejected |-> FALSE]
NoSession == [current_category |-> None, mode |-> "", current_files |-> 0]
NoCli == [pc |-> "off", session |-> NoSession, before |-> NoSession, last |-> NoCommand]

\* first_sentence(text) is called and returns
FirstSentence ==
    /\ eval = NoEval
    /\ \E text \in Abstracts :
         eval' = [NoEval EXCEPT !.op = "first_sentence", !.text = text,
                                !.out = first_sentence(text)]
    /\ UNCHANGED <<botVars, storeVars, fetchVars, twoVars, cli>>

\* build_context(papers, mode) is called and returns or raises
BuildContext ==
    /\ eval = NoEval
    /\ \E papers \in PaperArgs, m \in ModeArgs :
         eval' = [NoEval EXCEPT !.op = "build_context", !.papers = papers,
                                !.mode = m,
                                !.raised = build_context(papers, m).raised,
                                !.out = build_context(papers, m).out]
    /\ UNCHANGED <<botVars, storeVars, fetchVars, twoVars, cli>>

\* the caller goes on
Evaluated ==
    /\ eval # NoEval
    /\ eval' = NoEval
    /\ UNCHANGED <<botVars, storeVars, fetchVars, twoVars, cli>>

(***************************************************************************)
(* The snapshot store: save_feed_json, cleanup_old_files and               *)
(* cleanup_by_cat_max_files of save_daily_json.py, each one step.  `call`  *)
(* holds the arguments and the result of the operation that has just       *)
(* returned and `prev` the store it was called on; Returned hands control  *)
(* back to the caller, after which the next operation can start.           *)
(***************************************************************************)
StoreCats == {"cs.LG", "math.CO"}
CategoryArgs == StoreCats \cup {None}
NoPath == <<BadPrefix, None>>
NoCall == [op |-> None, category |-> None, n |-> 0, skip_empty |-> FALSE,
           dry_run |-> FALSE, now |-> 0, papers |-> <<>>, ret |-> 0,
           path |-> NoPath]

GlobAll(st) == {n \in Names : st[n] # Absent}

\* is_empty_file finding papers in every file
is_empty_file_NeverEmpty(st, n) == FALSE

\* is_empty_file answering True for a file that cannot be parsed
is_empty_file_CorruptIsEmpty(st, n) == st[n].kind # "absent" /\ st[n].papers = <<>>

\* is_empty_file: len(data.get("papers", [])) == 0, False when the file
\* cannot be opened or parsed
is_empty_file(st, n) == st[n].kind = "json" /\ st[n].papers = <<>>

\* datetime.strptime(filename[:10], "%Y-%m-%d") succeeds
strptime_ok(prefix) == prefix \in Days

\* The date save_feed_json puts in the file name: parse(feed.updated)
\* formatted "%Y-%m-%d"
date_str(feed) == feed.updated

\* save_feed_json appending to the papers of a file that exists already
save_feed_json_Appends(st, category, feed, dry) ==
    LET filepath == <<feed.updated, category>> IN
    [store |-> IF dry THEN st
               ELSE [st EXCEPT ![filepath] = Json(st[filepath].papers \o feed.papers)],
     path |-> filepath]

\* save_feed_json, lines 48-60
save_feed_json(st, category, feed, dry) ==
    LET filepath == <<date_str(feed), category>> IN
    [store |-> IF dry THEN st ELSE [st EXCEPT ![filepath] = Json(feed.papers)],
     path |-> filepath]

\* the loop of cleanup_old_files deleting the files dated at the cutoff too
RECURSIVE OldFilesLoop_AtCutoff(_, _, _, _, _)
OldFilesLoop_AtCutoff(st, files, cutoff_date, dry, deleted_count) ==
    IF files = <<>> THEN [store |-> st, ret |-> deleted_count]
    ELSE LET filepath == Head(files) IN
         IF ~(filepath[1] \in Days)
         THEN OldFilesLoop_AtCutoff(st, Tail(files), cutoff_date, dry, deleted_count)
         ELSE IF filepath[1] <= cutoff_date
              THEN OldFilesLoop_AtCutoff(IF dry THEN st
                                         ELSE [st EXCEPT ![filepath] = Absent],
                                         Tail(files), cutoff_date, dry,
                                         deleted_count + 1)
              ELSE OldFilesLoop_AtCutoff(st, Tail(files), cutoff_date, dry,
                                         deleted_count)

\* cleanup_old_files, the loop of lines 96-113 over `files`
RECURSIVE OldFilesLoop(_, _, _, _, _)
OldFilesLoop(st, files, cutoff_date, dry, deleted_count) ==
    IF files = <<>> THEN [store |-> st, ret |-> deleted_count]
    ELSE LET filepath == Head(files) IN
         IF ~strptime_ok(filepath[1])
         THEN OldFilesLoop(st, Tail(files), cutoff_date, dry, deleted_count)
         ELSE IF filepath[1] < cutoff_date
              THEN OldFilesLoop(IF dry THEN st
                                ELSE [st EXCEPT ![filepath] = Absent],
                                Tail(files), cutoff_date, dry, deleted_count + 1)
              ELSE OldFilesLoop(st, Tail(files), cutoff_date, dry, deleted_count)

\* cleanup_old_files, lines 85-119
cleanup_old_files(st, now, days, category, dry) ==
    LET cutoff_date == now - days
        files == IF category # None THEN Glob(st, category) ELSE GlobAll(st)
    IN  OldFilesLoop(st, SortedDesc(files), cutoff_date, dry, 0)

\* the loop of cleanup_by_cat_max_files giving an empty snapshot a place in
\* the count
RECURSIVE KeepLoop_CountsEmpty(_, _, _, _, _, _)
KeepLoop_CountsEmpty(st, file_list, max_files, skip_empty, kept_count, filesto_delete) ==
    IF file_list = <<>> THEN filesto_delete
    ELSE LET filepath == Head(file_list)
             empty == st[filepath].kind = "json" /\ st[filepath].papers = <<>>
         IN  IF skip_empty /\ empty
             THEN KeepLoop_CountsEmpty(st, Tail(file_list), max_files, skip_empty,
                                       kept_count + 1, filesto_delete)
             ELSE IF kept_count < max_files
                  THEN KeepLoop_CountsEmpty(st, Tail(file_list), max_files, skip_empty,
                                            kept_count + 1, filesto_delete)
                  ELSE KeepLoop_CountsEmpty(st, Tail(file_list), max_files, skip_empty,
                                            kept_count, Append(filesto_delete, filepath))

\* the loop of cleanup_by_cat_max_files keeping one file more than max_files
RECURSIVE KeepLoop_OneMore(_, _, _, _, _, _)
KeepLoop_OneMore(st, file_list, max_files, skip_empty, kept_count, filesto_delete) ==
    IF file_list = <<>> THEN filesto_delete
    ELSE LET filepath == Head(file_list)
             empty == st[filepath].kind = "json" /\ st[filepath].papers = <<>>
         IN  IF skip_empty /\ empty
             THEN KeepLoop_OneMore(st, Tail(file_list), max_files, skip_empty,
                                   kept_count, filesto_delete)
             ELSE IF kept_count <= max_files
                  THEN KeepLoop_OneMore(st, Tail(file_list), max_files, skip_empty,
                                        kept_count + 1, filesto_delete)
                  ELSE KeepLoop_OneMore(st, Tail(file_list), max_files, skip_empty,
                                        kept_count, Append(filesto_delete, filepath))

\* cleanup_by_cat_max_files, the loop of lines 161-172 over one category's files
RECURSIVE KeepLoop(_, _, _, _, _, _)
KeepLoop(st, file_list, max_files, skip_empty, kept_count, filesto_delete) ==
    IF file_list = <<>> THEN filesto_delete
    ELSE LET filepath == Head(file_list)
             empty == is_empty_file(st, filepath)
         IN  IF skip_empty /\ empty
             THEN KeepLoop(st, Tail(file_list), max_files, skip_empty,
                           kept_count, filesto_delete)
             ELSE IF kept_count < max_files
                  THEN KeepLoop(st, Tail(file_list), max_files, skip_empty,
                                kept_count + 1, filesto_delete)
                  ELSE KeepLoop(st, Tail(file_list), max_files, skip_empty,
                                kept_count, Append(filesto_delete, filepath))

\* the loop over `categories` removing the files in a dry run too
RECURSIVE CategoriesLoop_DryDeletes(_, _, _, _, _, _)
CategoriesLoop_DryDeletes(st, categories, max_files, skip_empty, dry, total_deleted) ==
    IF categories = <<>> THEN [store |-> st, ret |-> total_deleted]
    ELSE LET file_list == SortedDesc(Glob(st, Head(categories)))
             filesto_delete ==
                 KeepLoop(st, file_list, max_files, skip_empty, 0, <<>>)
             removed == {filesto_delete[i] : i \in 1..Len(filesto_delete)}
             st2 == [n \in Names |-> IF n \in removed THEN Absent ELSE st[n]]
         IN  CategoriesLoop_DryDeletes(st2, Tail(categories), max_files, skip_empty,
                                       dry, total_deleted + Len(filesto_delete))

\* cleanup_by_cat_max_files, the loop of lines 154-182 over `categories`
RECURSIVE CategoriesLoop(_, _, _, _, _, _)
CategoriesLoop(st, categories, max_files, skip_empty, dry, total_deleted) ==
    IF categories = <<>> THEN [store |-> st, ret |-> total_deleted]
    ELSE LET file_list == SortedDesc(Glob(st, Head(categories)))
             filesto_delete ==
                 KeepLoop(st, file_list, max_files, skip_empty, 0, <<>>)
             removed == {filesto_delete[i] : i \in 1..Len(filesto_delete)}
             st2 == IF dry THEN st
                    ELSE [n \in Names |-> IF n \in removed THEN Absent ELSE st[n]]
         IN  CategoriesLoop(st2, Tail(categories), max_files, skip_empty, dry,
                            total_deleted + Len(filesto_delete))

\* cleanup_by_cat_max_files, lines 138-186
cleanup_by_cat_max_files(st, max_files, category, skip_empty, dry) ==
    LET categories ==
            IF category # None THEN <<category>>
            ELSE SetToList({n[2] : n \in GlobAll(st)})
    IN  CategoriesLoop(st, categories, max_files, skip_empty, dry, 0)

\* what daily_entries can return: the feed's update date and its new
\* submissions and cross-lists
FeedPapers == {<<>>, <<1>>}
Feeds == [updated : Days, papers : FeedPapers]
Now == MaxDay + 1

\* DATA_DIR before the first operation: empty, or holding one file that
\* save_feed_json did not write: a file json.load cannot parse, or a snapshot
\* whose name does not start with a date.
InitialStores ==
    {EmptyStore}
    \cup {[EmptyStore EXCEPT ![n] = Corrupt] : n \in Days \X StoreCats}
    \cup {[EmptyStore EXCEPT ![n] = Json(<<1>>)] : n \in {BadPrefix} \X StoreCats}

\* python save_daily_json.py <category> [--dry-run]
SaveFeedJson ==
    /\ call = NoCall
    /\ \E category \in StoreCats, feed \in Feeds, dry \in BOOLEAN :
         LET r == save_feed_json(store, category, feed, dry) IN
         /\ Cardinality(GlobAll(r.store)) <= MaxFiles
         /\ store' = r.store
         /\ call' = [NoCall EXCEPT !.op = "save", !.category = category,
                                   !.n = feed.updated, !.papers = feed.papers,
                                   !.dry_run = dry, !.path = r.path]
    /\ prev' = store
    /\ UNCHANGED <<botVars, fetchVars, eval, twoVars, cli>>

\* python save_daily_json.py --cleanup <days> [--category <cat>] [--dry-run]
CleanupOldFiles ==
    /\ call = NoCall
    /\ \E days \in 0..MaxDay, category \in CategoryArgs, dry \in BOOLEAN :
         LET r == cleanup_old_files(store, Now, days, category, dry) IN
         /\ store' = r.store
         /\ call' = [NoCall EXCEPT !.op = "cleanup_old_files",
                                   !.category = category, !.n = days,
                                   !.now = Now, !.dry_run = dry, !.ret = r.ret]
    /\ prev' = store
    /\ UNCHANGED <<botVars, fetchVars, eval, twoVars, cli>>

\* python save_daily_json.py --cleanup-by-cat-max-files <n> [--category <cat>]
\*        [--skip-empty=0|1] [--dry-run]
CleanupByCatMaxFiles ==
    /\ call = NoCall
    /\ \E max_files \in 0..MaxKeep, category \in CategoryArgs,
          skip_empty \in BOOLEAN, dry \in BOOLEAN :
         LET r == cleanup_by_cat_max_files(store, max_files, category,
                                           skip_empty, dry) IN
         /\ store' = r.store
         /\ call' = [NoCall EXCEPT !.op = "cleanup_by_cat_max_files",
                                   !.category = category, !.n = max_files,
                                   !.skip_empty = skip_empty, !.dry_run = dry,
                                   !.ret = r.ret]
    /\ prev' = store
    /\ UNCHANGED <<botVars, fetchVars, eval, twoVars, cli>>

\* The operation's result has been handed to the caller.
Returned ==
    /\ call # NoCall
    /\ call' = NoCall
    /\ prev' = store
    /\ UNCHANGED <<store, botVars, fetchVars, eval, twoVars, cli>>

InitStore ==
    /\ store \in InitialStores
    /\ call = NoCall
    /\ prev = store
    /\ mode = "once"
    /\ dry_run = FALSE
    /\ cat_max_files = CAT_MAX_FILES
    /\ pc = "off"
    /\ processed = {}
    /\ pfile = NoFile
    /\ inbox = <<>>
    /\ notifications = <<>>
    /\ idx = 1
    /\ cur = NoCur
    /\ reply_posted = Zero
    /\ post_calls = Zero
    /\ llm_calls = Zero
    /\ feed_loads = Zero
    /\ last_post = NoPost
    /\ passes = 0
    /\ restarts = 0
    /\ post_gap = "clear"
    /\ dry_reported = {}
    /\ dry_recorded = {}
    /\ arxiv_max_trial = 2
    /\ fpc = "off"
    /\ cat = None
    /\ trial_num = 0
    /\ retrieved = <<>>
    /\ sleeps = 0
    /\ returned = <<>>
    /\ elapsed = 0
    /\ num_calls = 0
    /\ since_admit = arxiv_call_period
    /\ since_retrieve = arxiv_call_period
    /\ eval = NoEval
    /\ instances = NoInstances
    /\ lost = {}
    /\ late = {}
    /\ cli = NoCli

NextStore ==
    \/ SaveFeedJson
    \/ CleanupOldFiles
    \/ CleanupByCatMaxFiles
    \/ Returned

SpecStore == InitStore /\ [][NextStore]_vars

(***************************************************************************)
(* The feed fetcher: daily_entries (rag_arXiv_daily_feed.py).              *)
(* fpc: "idle" before the first call, "limiter" in the wrappers of the     *)
(* decorators of lines 16-17, "retrieve" before afpa.retrieve, "retry"     *)
(* after an attempt that did not return, "returned" after return feed,     *)
(* "fatal" after the raise of line 36.                                     *)
(* The decorators are those of the ratelimit package: limits keeps a       *)
(* window (last_reset, num_calls) that starts when the module is imported, *)
(* sleep_and_retry turns the limiter's exception into a sleep.             *)
(***************************************************************************)

\* what afpa.retrieve can return: the entry list and the bozo flag
FeedResults == [entries : FeedPapers, bozo : BOOLEAN]

\* an attempt without the else branch of line 29: the last attempt goes on
\* like the others
attempt_NoLastReturn(n, max_trial, f) ==
    IF Len(f.entries) > 0 THEN "return" ELSE "retry"

\* an attempt that retries whenever the feed is flagged bozo
attempt_BozoRetries(n, max_trial, f) ==
    IF f.bozo THEN "retry"
    ELSE IF n < max_trial - 1
         THEN IF Len(f.entries) > 0 THEN "return" ELSE "retry"
         ELSE "return"

\* daily_entries, lines 22-30: what the attempt numbered n does with feed f
attempt(n, max_trial, f) ==
    IF n < max_trial - 1
    THEN IF Len(f.entries) > 0 THEN "return" ELSE "retry"
    ELSE "return"

\* Time.  The limiter reads the clock only through clock() - last_reset,
\* and tells no two values of it apart that are both at least the period;
\* elapsed and since_admit count seconds up to arxiv_call_period, which stands
\* for every longer time.
Later(t, d) == IF t + d >= arxiv_call_period THEN arxiv_call_period ELSE t + d

\* limits.__period_remaining: period - (clock() - last_reset)
period_remaining == arxiv_call_period - elapsed

\* A second goes by: before the first call, between two calls, or while
\* afpa.retrieve is under way.
Tick ==
    /\ fpc \in {"idle", "returned", "limiter", "retrieve"}
    /\ \/ elapsed < arxiv_call_period
       \/ since_admit < arxiv_call_period
       \/ since_retrieve < arxiv_call_period
    /\ elapsed' = Later(elapsed, 1)
    /\ since_admit' = Later(since_admit, 1)
    /\ since_retrieve' = Later(since_retrieve, 1)
    /\ UNCHANGED <<arxiv_max_trial, fpc, cat, trial_num, retrieved, sleeps,
                   returned, num_calls, botVars, storeVars, eval, twoVars, cli>>

\* save_feed_json calls daily_entries(cat, aliases): the call enters the
\* wrappers of sleep_and_retry and limits
Call ==
    /\ fpc \in {"idle", "returned", "fatal"}
    /\ \E c \in StoreCats : cat' = c
    /\ fpc' = "limiter"
    /\ UNCHANGED <<arxiv_max_trial, trial_num, retrieved, sleeps, returned,
                   elapsed, num_calls, since_admit, since_retrieve, botVars, storeVars, eval, twoVars, cli>>

\* limits(calls=arxiv_call_limit, period=arxiv_call_period): a window that has
\* run out (period_remaining <= 0) is reset, the call is counted, and it
\* passes unless the count exceeds the limit
admits(n, remaining) ==
    (IF remaining <= 0 THEN 0 ELSE n) + 1 <= arxiv_call_limit

\* The limiter lets the call through, resetting its window if that has run
\* out, and the body of daily_entries starts (line 19).
DailyEntries ==
    /\ fpc = "limiter"
    /\ admits(num_calls, period_remaining)
    /\ num_calls' = (IF period_remaining <= 0 THEN 0 ELSE num_calls) + 1
    /\ elapsed' = IF period_remaining <= 0 THEN 0 ELSE elapsed
    /\ since_admit' = 0
    /\ trial_num' = 0
    /\ retrieved' = <<>>
    /\ sleeps' = 0
    /\ returned' = <<>>
    /\ fpc' = "retrieve"
    /\ UNCHANGED <<arxiv_max_trial, cat, since_retrieve, botVars, storeVars, eval, twoVars, cli>>

\* The limiter raises RateLimitException(period_remaining); sleep_and_retry
\* catches it, sleeps period_remaining and calls again.
Blocked ==
    /\ fpc = "limiter"
    /\ ~admits(num_calls, period_remaining)
    /\ num_calls' = (IF period_remaining <= 0 THEN 0 ELSE num_calls) + 1
    /\ elapsed' = Later(elapsed, period_remaining)
    /\ since_admit' = Later(since_admit, period_remaining)
    /\ since_retrieve' = Later(since_retrieve, period_remaining)
    /\ UNCHANGED <<arxiv_max_trial, fpc, cat, trial_num, retrieved, sleeps,
                   returned, botVars, storeVars, eval, twoVars, cli>>

\* one pass of the while loop down to line 30
Retrieve ==
    /\ fpc = "retrieve"
    /\ trial_num < arxiv_max_trial
    /\ \E feed \in FeedResults :
         /\ retrieved' = Append(retrieved, feed)
         /\ IF attempt(trial_num, arxiv_max_trial, feed) = "return"
            THEN fpc' = "returned" /\ returned' = <<feed>>
            ELSE fpc' = "retry" /\ returned' = returned
    /\ since_retrieve' = 0
    /\ UNCHANGED <<arxiv_max_trial, cat, trial_num, sleeps, elapsed, num_calls,
                   since_admit, botVars, storeVars, eval, twoVars, cli>>

\* lines 31-36: count the trial, then sleep and go round again, or raise
SleepAndRetry ==
    /\ fpc = "retry"
    /\ trial_num' = trial_num + 1
    /\ IF trial_num + 1 < arxiv_max_trial
       THEN /\ sleeps' = sleeps + 1
            /\ elapsed' = Later(elapsed, arxiv_call_sleep)
            /\ since_admit' = Later(since_admit, arxiv_call_sleep)
            /\ since_retrieve' = Later(since_retrieve, arxiv_call_sleep)
            /\ fpc' = "retrieve"
       ELSE /\ sleeps' = sleeps
            /\ elapsed' = elapsed
            /\ since_admit' = since_admit
            /\ since_retrieve' = since_retrieve
            /\ fpc' = "fatal"
    /\ UNCHANGED <<arxiv_max_trial, cat, retrieved, returned, num_calls,
                   botVars, storeVars, eval, twoVars, cli>>

InitFetch ==
    /\ arxiv_max_trial \in 1..MaxTrial
    /\ fpc = "idle"
    /\ cat = None
    /\ trial_num = 0
    /\ retrieved = <<>>
    /\ sleeps = 0
    /\ returned = <<>>
    /\ elapsed = 0
    /\ num_calls = 0
    /\ since_admit = arxiv_call_period
    /\ since_retrieve = arxiv_call_period
    /\ eval = NoEval
    /\ instances = NoInstances
    /\ lost = {}
    /\ late = {}
    /\ cli = NoCli
    /\ store = EmptyStore
    /\ call = NoCall
    /\ prev = EmptyStore
    /\ mode = "once"
    /\ dry_run = FALSE
    /\ cat_max_files = CAT_MAX_FILES
    /\ pc = "off"
    /\ processed = {}
    /\ pfile = NoFile
    /\ inbox = <<>>
    /\ notifications = <<>>
    /\ idx = 1
    /\ cur = NoCur
    /\ reply_posted = Zero
    /\ post_calls = Zero
    /\ llm_calls = Zero
    /\ feed_loads = Zero
    /\ last_post = NoPost
    /\ passes = 0
    /\ restarts = 0
    /\ post_gap = "clear"
    /\ dry_reported = {}
    /\ dry_recorded = {}

NextFetch ==
    \/ Tick
    \/ Call
    \/ DailyEntries
    \/ Blocked
    \/ Retrieve
    \/ SleepAndRetry

SpecFetch == InitFetch /\ [][NextFetch]_vars

(***************************************************************************)
(* The reply bot: run_reply_bot (mode "daemon") and run_once (mode "once"). *)
(* pc: "start" before load_processed, "fetch" before                       *)
(* mastodon.notifications, "mention" at the head of the for loop,          *)
(* "generate" before generate_reply, "deliver" before the truncation and   *)
(* the post, "log" before log_interaction, "record" before processed.add,  *)
(* "sleep5" in time.sleep(5), "pollsleep" in time.sleep(POLL_INTERVAL),    *)
(* "final_save" before run_once's save_processed, "done" after run_once    *)
(* returned, "crashed" when the process has ended abnormally.              *)
(***************************************************************************)

\* The snapshot files the bot runs against: cs.LG has a non-empty snapshot
\* under a newer empty one, math.CO's newest file is corrupt, cs.AI has none.
BotStore ==
    [n \in Names |->
        IF n = <<2, "cs.LG">> THEN Json(<<1>>)
        ELSE IF n = <<3, "cs.LG">> THEN Json(<<>>)
        ELSE IF n = <<1, "cs.LG">> THEN Json(<<2>>)
        ELSE IF n = <<3, "math.CO">> THEN Corrupt
        ELSE Absent]

InitPoller ==
    /\ mode \in Modes
    /\ dry_run \in BOOLEAN
    /\ cat_max_files = CAT_MAX_FILES
    /\ pc = "start"
    /\ processed = {}
    /\ pfile = NoFile
    /\ inbox \in Batches
    /\ notifications = <<>>
    /\ idx = 1
    /\ cur = NoCur
    /\ reply_posted = Zero
    /\ post_calls = Zero
    /\ llm_calls = Zero
    /\ feed_loads = Zero
    /\ last_post = NoPost
    /\ passes = 0
    /\ restarts = 0
    /\ post_gap = "clear"
    /\ dry_reported = {}
    /\ dry_recorded = {}
    /\ store = BotStore
    /\ call = NoCall
    /\ prev = BotStore
    /\ arxiv_max_trial = 2
    /\ fpc = "off"
    /\ cat = None
    /\ trial_num = 0
    /\ retrieved = <<>>
    /\ sleeps = 0
    /\ returned = <<>>
    /\ elapsed = 0
    /\ num_calls = 0
    /\ since_admit = arxiv_call_period
    /\ since_retrieve = arxiv_call_period
    /\ eval = NoEval
    /\ instances = NoInstances
    /\ lost = {}
    /\ late = {}
    /\ cli = NoCli

AtMention == pc = "mention" /\ idx <= Len(notifications)
notif_id == notifications[idx]

\* the except clause going back to the fetch without time.sleep(POLL_INTERVAL)
ExceptionTarget_NoSleep == IF mode = "daemon" THEN "fetch" ELSE "crashed"

\* the loop body without run_reply_bot's except clause
ExceptionTarget_Uncaught == "crashed"

\* An exception inside the loop body: run_reply_bot's except clause prints it
\* and falls to time.sleep(POLL_INTERVAL); run_once has no handler and ends.
ExceptionTarget == IF mode = "daemon" THEN "pollsleep" ELSE "crashed"

Raise ==
    /\ pc' = ExceptionTarget
    /\ notifications' = <<>>
    /\ idx' = 1
    /\ cur' = NoCur
    /\ processed' = IF mode = "daemon" THEN processed ELSE {}

\* `continue`: on to the next notification
Continue ==
    /\ idx' = idx + 1
    /\ pc' = "mention"
    /\ cur' = NoCur
    /\ UNCHANGED notifications

\* processed.add(notif_id), followed in run_reply_bot by save_processed(processed)
AddedProcessed == processed \cup {notif_id}
\* run_once saving after every add as run_reply_bot does
SavedAfterAdd_EveryAdd == save_processed(AddedProcessed)

SavedAfterAdd ==
    IF mode = "daemon" THEN save_processed(AddedProcessed) ELSE pfile

\* line 355 / 463
Start ==
    /\ pc = "start"
    /\ processed' = load_processed(pfile)
    /\ pc' = "fetch"
    /\ UNCHANGED <<mode, post_gap, dry_reported, dry_recorded, cat_max_files, inbox, dry_run, pfile, notifications, idx, cur, reply_posted,
                   post_calls, llm_calls, feed_loads, last_post, passes,
                   restarts, storeVars, fetchVars, eval, twoVars, cli>>

\* line 368 / 467
FetchMentions ==
    /\ pc = "fetch"
    /\ passes < MaxPasses
    /\ notifications' = inbox
    /\ idx' = 1
    /\ pc' = "mention"
    /\ passes' = passes + 1
    /\ UNCHANGED <<mode, post_gap, dry_reported, dry_recorded, cat_max_files, inbox, dry_run, processed, pfile, cur, reply_posted,
                   post_calls, llm_calls, feed_loads, last_post, restarts,
                   storeVars, fetchVars, eval, twoVars, cli>>

FetchMentionsRaises ==
    /\ pc = "fetch"
    /\ passes < MaxPasses
    /\ passes' = passes + 1
    /\ Raise
    /\ UNCHANGED <<mode, post_gap, dry_reported, dry_recorded, cat_max_files, inbox, dry_run, pfile, reply_posted, post_calls, llm_calls,
                   feed_loads, last_post, restarts, storeVars, fetchVars, eval, twoVars, cli>>

\* lines 373-374 / 473-474
DedupSkip ==
    /\ AtMention
    /\ notif_id \in processed
    /\ Continue
    /\ UNCHANGED <<mode, post_gap, dry_reported, dry_recorded, cat_max_files, inbox, dry_run, processed, pfile, reply_posted, post_calls,
                   llm_calls, feed_loads, last_post, passes, restarts,
                   storeVars, fetchVars, eval, twoVars, cli>>

\* lines 379-385 / 479-482
FilterDrop ==
    /\ AtMention
    /\ notif_id \notin processed
    /\ ~Eligible(notif_id)
    /\ processed' = AddedProcessed
    /\ pfile' = SavedAfterAdd
    /\ Continue
    /\ UNCHANGED <<mode, post_gap, dry_reported, dry_recorded, cat_max_files, inbox, dry_run, reply_posted, post_calls, llm_calls,
                   feed_loads, last_post, passes, restarts, storeVars, fetchVars, eval, twoVars, cli>>

\* lines 396-400 / 493-496
EmptyQuestion ==
    /\ AtMention
    /\ notif_id \notin processed
    /\ Eligible(notif_id)
    /\ Question(notif_id) = <<>>
    /\ processed' = AddedProcessed
    /\ pfile' = SavedAfterAdd
    /\ Continue
    /\ UNCHANGED <<mode, post_gap, dry_reported, dry_recorded, cat_max_files, inbox, dry_run, reply_posted, post_calls, llm_calls,
                   feed_loads, last_post, passes, restarts, storeVars, fetchVars, eval, twoVars, cli>>

\* save_processed raising at line 384 or 399: the identifier is already in
\* the in-memory set, the file is not rewritten
SkipSaveRaises ==
    /\ AtMention
    /\ mode = "daemon"
    /\ notif_id \notin processed
    /\ ~Eligible(notif_id) \/ Question(notif_id) = <<>>
    /\ processed' = AddedProcessed
    /\ pc' = "pollsleep"
    /\ notifications' = <<>>
    /\ idx' = 1
    /\ cur' = NoCur
    /\ UNCHANGED <<mode, post_gap, dry_reported, dry_recorded, cat_max_files, inbox, dry_run, pfile, reply_posted, post_calls, llm_calls,
                   feed_loads, last_post, passes, restarts, storeVars, fetchVars, eval, twoVars, cli>>

Repliable ==
    /\ AtMention
    /\ notif_id \notin processed
    /\ Eligible(notif_id)
    /\ Question(notif_id) # <<>>

\* lines 402-404 / 498-500
ClassifyHelp ==
    /\ Repliable
    /\ is_help_request(Question(notif_id))
    /\ \E t \in HelpTexts :
         cur' = [category |-> "help", papers |-> <<>>, reply_text |-> t]
    /\ pc' = "deliver"
    /\ UNCHANGED <<mode, post_gap, dry_reported, dry_recorded, cat_max_files, inbox, dry_run, processed, pfile, notifications, idx,
                   reply_posted, post_calls, llm_calls, feed_loads, last_post,
                   passes, restarts, storeVars, fetchVars, eval, twoVars, cli>>

category_of(id) == extract_category_from_message(Mentions[id].content)
papers_of(id) == load_feeds(store, category_of(id), cat_max_files, SKIP_EMPTY)

\* lines 406-409 / 502-505, load_feeds raising
LoadFeedsRaises ==
    /\ Repliable
    /\ ~is_help_request(Question(notif_id))
    /\ papers_of(notif_id).raised
    /\ feed_loads' = [feed_loads EXCEPT ![notif_id] = @ + 1]
    /\ Raise
    /\ UNCHANGED <<mode, post_gap, dry_reported, dry_recorded, cat_max_files, inbox, dry_run, pfile, reply_posted, post_calls, llm_calls,
                   last_post, passes, restarts, storeVars, fetchVars, eval, twoVars, cli>>

\* lines 411-413 / 507-509
NoData ==
    /\ Repliable
    /\ ~is_help_request(Question(notif_id))
    /\ ~papers_of(notif_id).raised
    /\ papers_of(notif_id).papers = <<>>
    /\ feed_loads' = [feed_loads EXCEPT ![notif_id] = @ + 1]
    /\ \E t \in NoDataTexts :
         cur' = [category |-> category_of(notif_id), papers |-> <<>>,
                 reply_text |-> t]
    /\ pc' = "deliver"
    /\ UNCHANGED <<mode, post_gap, dry_reported, dry_recorded, cat_max_files, inbox, dry_run, processed, pfile, notifications, idx,
                   reply_posted, post_calls, llm_calls, last_post, passes,
                   restarts, storeVars, fetchVars, eval, twoVars, cli>>

\* lines 414-417 / 510-511
LoadFeeds ==
    /\ Repliable
    /\ ~is_help_request(Question(notif_id))
    /\ ~papers_of(notif_id).raised
    /\ papers_of(notif_id).papers # <<>>
    /\ feed_loads' = [feed_loads EXCEPT ![notif_id] = @ + 1]
    /\ cur' = [category |-> category_of(notif_id),
               papers |-> papers_of(notif_id).papers, reply_text |-> <<>>]
    /\ pc' = "generate"
    /\ UNCHANGED <<mode, post_gap, dry_reported, dry_recorded, cat_max_files, inbox, dry_run, processed, pfile, notifications, idx,
                   reply_posted, post_calls, llm_calls, last_post, passes,
                   restarts, storeVars, fetchVars, eval, twoVars, cli>>

\* lines 418-420 / 512
Generate ==
    /\ pc = "generate"
    /\ llm_calls' = [llm_calls EXCEPT ![notif_id] = @ + 1]
    /\ \E t \in LLMReplies : cur' = [cur EXCEPT !.reply_text = t]
    /\ pc' = "deliver"
    /\ UNCHANGED <<mode, post_gap, dry_reported, dry_recorded, cat_max_files, inbox, dry_run, processed, pfile, notifications, idx,
                   reply_posted, post_calls, feed_loads, last_post, passes,
                   restarts, storeVars, fetchVars, eval, twoVars, cli>>

\* the identifier recorded before the reply is generated
GenerateRaises_Records ==
    /\ pc = "generate"
    /\ llm_calls' = [llm_calls EXCEPT ![notif_id] = @ + 1]
    /\ pc' = ExceptionTarget
    /\ notifications' = <<>>
    /\ idx' = 1
    /\ cur' = NoCur
    /\ processed' = IF mode = "daemon" THEN AddedProcessed ELSE {}
    /\ pfile' = SavedAfterAdd
    /\ UNCHANGED <<mode, post_gap, dry_reported, dry_recorded, cat_max_files, inbox, dry_run, reply_posted, post_calls, feed_loads,
                   last_post, passes, restarts, storeVars, fetchVars, eval, twoVars, cli>>

GenerateRaises ==
    /\ pc = "generate"
    /\ llm_calls' = [llm_calls EXCEPT ![notif_id] = @ + 1]
    /\ Raise
    /\ UNCHANGED <<mode, post_gap, dry_reported, dry_recorded, cat_max_files, inbox, dry_run, pfile, reply_posted, post_calls, feed_loads,
                   last_post, passes, restarts, storeVars, fetchVars, eval, twoVars, cli>>

\* the reply posted with the visibility of the mention it answers
StatusReply_SameVisibility(id, raw, reply_text) ==
    [to |-> id, raw |-> raw, status |-> reply_text,
     visibility |-> Mentions[id].visibility]

\* mastodon.status_reply(to_status=status, status=reply_text, visibility="unlisted")
StatusReply(id, raw, reply_text) ==
    [to |-> id, raw |-> raw, status |-> reply_text, visibility |-> "unlisted"]

\* lines 422-430 / 514-522
DeliverDryRun ==
    /\ pc = "deliver"
    /\ dry_run
    /\ cur' = [cur EXCEPT !.reply_text = Truncate(cur.reply_text)]
    /\ pc' = "log"
    /\ dry_reported' = dry_reported \cup {notif_id}
    /\ UNCHANGED <<mode, post_gap, dry_recorded, cat_max_files, inbox, dry_run, processed, pfile, notifications, idx,
                   reply_posted, post_calls, llm_calls, feed_loads, last_post,
                   passes, restarts, storeVars, fetchVars, eval, twoVars, cli>>

\* lines 422-437 / 514-529
DeliverPost ==
    /\ pc = "deliver"
    /\ ~dry_run
    /\ cur' = [cur EXCEPT !.reply_text = Truncate(cur.reply_text)]
    /\ last_post' = StatusReply(notif_id, cur.reply_text, Truncate(cur.reply_text))
    /\ post_calls' = [post_calls EXCEPT ![notif_id] = @ + 1]
    /\ reply_posted' = [reply_posted EXCEPT ![notif_id] = @ + 1]
    /\ pc' = "log"
    /\ post_gap' = "posted"
    /\ UNCHANGED <<mode, dry_reported, dry_recorded, cat_max_files, inbox, dry_run, processed, pfile, notifications, idx,
                   llm_calls, feed_loads, passes, restarts, storeVars, fetchVars, eval, twoVars, cli>>

DeliverPostRaises ==
    /\ pc = "deliver"
    /\ ~dry_run
    /\ last_post' = StatusReply(notif_id, cur.reply_text, Truncate(cur.reply_text))
    /\ post_calls' = [post_calls EXCEPT ![notif_id] = @ + 1]
    /\ Raise
    /\ post_gap' = "posted"
    /\ UNCHANGED <<mode, dry_reported, dry_recorded, cat_max_files, inbox, dry_run, pfile, reply_posted, llm_calls, feed_loads,
                   passes, restarts, storeVars, fetchVars, eval, twoVars, cli>>

\* line 439 / 531
LogInteraction ==
    /\ pc = "log"
    /\ pc' = "record"
    /\ last_post' = NoPost
    /\ UNCHANGED <<mode, post_gap, dry_reported, dry_recorded, cat_max_files, inbox, dry_run, processed, pfile, notifications, idx, cur,
                   reply_posted, post_calls, llm_calls, feed_loads, passes, restarts, storeVars, fetchVars, eval, twoVars, cli>>

LogInteractionRaises ==
    /\ pc = "log"
    /\ Raise
    /\ last_post' = NoPost
    /\ UNCHANGED <<mode, post_gap, dry_reported, dry_recorded, cat_max_files, inbox, dry_run, pfile, reply_posted, post_calls, llm_calls,
                   feed_loads, passes, restarts, storeVars, fetchVars, eval, twoVars, cli>>

\* lines 441-442 / 533
RecordProcessed ==
    /\ pc = "record"
    /\ processed' = AddedProcessed
    /\ pfile' = SavedAfterAdd
    /\ pc' = "sleep5"
    /\ dry_recorded' = IF dry_run THEN dry_recorded \cup {notif_id} ELSE dry_recorded
    /\ UNCHANGED <<mode, post_gap, dry_reported, cat_max_files, inbox, dry_run, notifications, idx, cur, reply_posted,
                   post_calls, llm_calls, feed_loads, last_post, passes,
                   restarts, storeVars, fetchVars, eval, twoVars, cli>>

\* save_processed raising at line 442
RecordSaveRaises ==
    /\ pc = "record"
    /\ mode = "daemon"
    /\ processed' = AddedProcessed
    /\ pc' = "pollsleep"
    /\ notifications' = <<>>
    /\ idx' = 1
    /\ cur' = NoCur
    /\ UNCHANGED <<mode, post_gap, dry_reported, dry_recorded, cat_max_files, inbox, dry_run, pfile, reply_posted, post_calls, llm_calls,
                   feed_loads, last_post, passes, restarts, storeVars, fetchVars, eval, twoVars, cli>>

\* line 444 / 534
Sleep5 ==
    /\ pc = "sleep5"
    /\ Continue
    /\ post_gap' = "clear"
    /\ UNCHANGED <<mode, dry_reported, dry_recorded, cat_max_files, inbox, dry_run, processed, pfile, reply_posted, post_calls,
                   llm_calls, feed_loads, last_post, passes, restarts,
                   storeVars, fetchVars, eval, twoVars, cli>>

\* the for loop is exhausted
LoopEnd ==
    /\ pc = "mention"
    /\ idx > Len(notifications)
    /\ pc' = IF mode = "daemon" THEN "pollsleep" ELSE "final_save"
    /\ notifications' = <<>>
    /\ idx' = 1
    /\ UNCHANGED <<mode, post_gap, dry_reported, dry_recorded, cat_max_files, inbox, dry_run, processed, pfile, cur, reply_posted,
                   post_calls, llm_calls, feed_loads, last_post, passes,
                   restarts, storeVars, fetchVars, eval, twoVars, cli>>

\* post_gap is "posted" from a status_reply call to the next sleep, "polled"
\* when that sleep was the poll interval, "clear" after time.sleep(5) and
\* before the first call
PollSleepGap == IF post_gap = "posted" THEN "polled" ELSE post_gap

\* line 449
PollSleep ==
    /\ pc = "pollsleep"
    /\ pc' = "fetch"
    /\ last_post' = NoPost
    /\ post_gap' = PollSleepGap
    /\ UNCHANGED <<mode, dry_reported, dry_recorded, cat_max_files, inbox, dry_run, processed, pfile, notifications, idx, cur,
                   reply_posted, post_calls, llm_calls, feed_loads, passes, restarts, storeVars, fetchVars, eval, twoVars, cli>>

\* line 536
FinalSave ==
    /\ pc = "final_save"
    /\ pfile' = save_processed(processed)
    /\ pc' = "done"
    /\ processed' = {}
    /\ UNCHANGED <<mode, post_gap, dry_reported, dry_recorded, cat_max_files, inbox, dry_run, notifications, idx, cur, reply_posted,
                   post_calls, llm_calls, feed_loads, last_post, passes,
                   restarts, storeVars, fetchVars, eval, twoVars, cli>>

FinalSaveRaises ==
    /\ pc = "final_save"
    /\ pc' = "crashed"
    /\ processed' = {}
    /\ UNCHANGED <<mode, post_gap, dry_reported, dry_recorded, cat_max_files, inbox, dry_run, pfile, notifications, idx, cur, reply_posted,
                   post_calls, llm_calls, feed_loads, last_post, passes,
                   restarts, storeVars, fetchVars, eval, twoVars, cli>>

\* The process is killed (signal, power loss): its memory is gone, the files stay.
Crash ==
    /\ pc \notin {"start", "done", "crashed"}
    /\ pc' = "crashed"
    /\ processed' = {}
    /\ notifications' = <<>>
    /\ idx' = 1
    /\ cur' = NoCur
    /\ last_post' = NoPost
    /\ UNCHANGED <<mode, post_gap, dry_reported, dry_recorded, cat_max_files, inbox, dry_run, pfile, reply_posted, post_calls, llm_calls,
                   feed_loads, passes, restarts, storeVars, fetchVars, eval, twoVars, cli>>

\* The bot is started again (__main__, lines 591-621) on the same LOG_DIR.
Restart ==
    /\ pc \in {"done", "crashed"}
    /\ restarts < MaxRestarts
    /\ restarts' = restarts + 1
    /\ dry_run' \in BOOLEAN
    /\ pc' = "start"
    /\ last_post' = NoPost
    /\ UNCHANGED <<mode, post_gap, dry_reported, dry_recorded, cat_max_files, inbox, processed, pfile, notifications, idx, cur, reply_posted,
                   post_calls, llm_calls, feed_loads, passes, storeVars, fetchVars, eval, twoVars, cli>>

NextBot ==
    \/ Start
    \/ FetchMentions
    \/ FetchMentionsRaises
    \/ DedupSkip
    \/ FilterDrop
    \/ EmptyQuestion
    \/ SkipSaveRaises
    \/ ClassifyHelp
    \/ LoadFeedsRaises
    \/ NoData
    \/ LoadFeeds
    \/ Generate
    \/ GenerateRaises
    \/ DeliverDryRun
    \/ DeliverPost
    \/ DeliverPostRaises
    \/ LogInteraction
    \/ LogInteractionRaises
    \/ RecordProcessed
    \/ RecordSaveRaises
    \/ Sleep5
    \/ LoopEnd
    \/ PollSleep
    \/ FinalSave
    \/ FinalSaveRaises
    \/ Crash
    \/ Restart

SpecPoller == InitPoller /\ [][NextBot]_vars

(***************************************************************************)
(* One execution of run_once in which every call returns: no exception, no *)
(* kill.  The snapshot files and the files argument vary.                  *)
(***************************************************************************)

\* DATA_DIR: cs.LG has, for each day, no file, an empty snapshot or a
\* snapshot holding that day's paper; math.CO has one snapshot; cs.AI none.
OnceStores ==
    {[n \in Names |->
         IF n[2] = "cs.LG" /\ n[1] \in Days
         THEN (IF f[n[1]] = "absent" THEN Absent
               ELSE IF f[n[1]] = "empty" THEN Json(<<>>)
               ELSE Json(<<n[1]>>))
         ELSE IF n = <<1, "math.CO">> THEN Json(<<0>>)
         ELSE Absent] : f \in [Days -> {"absent", "empty", "papers"}]}

\* the store with a cs.LG snapshot of every day
FullStore == CHOOSE st \in OnceStores : \A d \in Days : st[<<d, "cs.LG">>] = Json(<<d>>)

InitOnce ==
    /\ mode = "once"
    /\ dry_run \in BOOLEAN
    /\ \/ /\ inbox \in Batches
          /\ store = FullStore
          /\ cat_max_files = CAT_MAX_FILES
       \/ /\ inbox \in {b \in Batches : Len(b) = 1}
          /\ store \in OnceStores
          /\ cat_max_files \in 1..MaxLoad
    /\ pfile \in {NoFile, save_processed({"m1"})}
    /\ pc = "start"
    /\ processed = {}
    /\ notifications = <<>>
    /\ idx = 1
    /\ cur = NoCur
    /\ reply_posted = Zero
    /\ post_calls = Zero
    /\ llm_calls = Zero
    /\ feed_loads = Zero
    /\ last_post = NoPost
    /\ passes = 0
    /\ restarts = 0
    /\ post_gap = "clear"
    /\ dry_reported = {}
    /\ dry_recorded = {}
    /\ call = NoCall
    /\ prev = store
    /\ arxiv_max_trial = 2
    /\ fpc = "off"
    /\ cat = None
    /\ trial_num = 0
    /\ retrieved = <<>>
    /\ sleeps = 0
    /\ returned = <<>>
    /\ elapsed = 0
    /\ num_calls = 0
    /\ since_admit = arxiv_call_period
    /\ since_retrieve = arxiv_call_period
    /\ eval = NoEval
    /\ instances = NoInstances
    /\ lost = {}
    /\ late = {}
    /\ cli = NoCli

NextOnce ==
    \/ Start
    \/ FetchMentions
    \/ DedupSkip
    \/ FilterDrop
    \/ EmptyQuestion
    \/ ClassifyHelp
    \/ NoData
    \/ LoadFeeds
    \/ Generate
    \/ DeliverDryRun
    \/ DeliverPost
    \/ LogInteraction
    \/ RecordProcessed
    \/ Sleep5
    \/ LoopEnd
    \/ FinalSave

SpecOnce == InitOnce /\ [][NextOnce]_vars

\* python rag_toXiv_reply_bot.py on a store every file of which can be read:
\* every call of run_once returns, every sleep ends.
RunOnceInboxes ==
    {<<>>, <<"m1", "m3">>, <<"m6", "m5">>, <<"m2", "m7">>, <<"m4", "m1">>}

InitRunOnce ==
    /\ mode = "once"
    /\ dry_run \in BOOLEAN
    /\ inbox \in RunOnceInboxes
    /\ store = FullStore
    /\ cat_max_files = CAT_MAX_FILES
    /\ pfile \in {NoFile, save_processed({"m1"})}
    /\ pc = "start"
    /\ processed = {}
    /\ notifications = <<>>
    /\ idx = 1
    /\ cur = NoCur
    /\ reply_posted = Zero
    /\ post_calls = Zero
    /\ llm_calls = Zero
    /\ feed_loads = Zero
    /\ last_post = NoPost
    /\ passes = 0
    /\ restarts = 0
    /\ post_gap = "clear"
    /\ dry_reported = {}
    /\ dry_recorded = {}
    /\ call = NoCall
    /\ prev = store
    /\ arxiv_max_trial = 2
    /\ fpc = "off"
    /\ cat = None
    /\ trial_num = 0
    /\ retrieved = <<>>
    /\ sleeps = 0
    /\ returned = <<>>
    /\ elapsed = 0
    /\ num_calls = 0
    /\ since_admit = arxiv_call_period
    /\ since_retrieve = arxiv_call_period
    /\ eval = NoEval
    /\ instances = NoInstances
    /\ lost = {}
    /\ late = {}
    /\ cli = NoCli

SpecRunOnce == InitRunOnce /\ [][NextOnce]_vars /\ WF_vars(NextOnce)

\* python rag_toXiv_reply_bot.py --daemon, never killed: every call of the
\* loop returns or raises and every sleep ends.  passes counts the fetches up
\* to MaxPasses.
\* the mentions the daemon finds at every fetch: between them they take every
\* branch of the loop body
DaemonInboxes == {<<"m1", "m3">>, <<"m6", "m5">>, <<"m2", "m7">>}

InitDaemon ==
    /\ mode = "daemon"
    /\ dry_run \in BOOLEAN
    /\ cat_max_files = CAT_MAX_FILES
    /\ pc = "start"
    /\ processed = {}
    /\ pfile = NoFile
    /\ inbox \in DaemonInboxes
    /\ notifications = <<>>
    /\ idx = 1
    /\ cur = NoCur
    /\ reply_posted = Zero
    /\ post_calls = Zero
    /\ llm_calls = Zero
    /\ feed_loads = Zero
    /\ last_post = NoPost
    /\ passes = 0
    /\ restarts = 0
    /\ post_gap = "clear"
    /\ dry_reported = {}
    /\ dry_recorded = {}
    /\ store = BotStore
    /\ call = NoCall
    /\ prev = BotStore
    /\ arxiv_max_trial = 2
    /\ fpc = "off"
    /\ cat = None
    /\ trial_num = 0
    /\ retrieved = <<>>
    /\ sleeps = 0
    /\ returned = <<>>
    /\ elapsed = 0
    /\ num_calls = 0
    /\ since_admit = arxiv_call_period
    /\ since_retrieve = arxiv_call_period
    /\ eval = NoEval
    /\ instances = NoInstances
    /\ lost = {}
    /\ late = {}
    /\ cli = NoCli

NextDaemon ==
    \/ Start
    \/ FetchMentions
    \/ FetchMentionsRaises
    \/ DedupSkip
    \/ FilterDrop
    \/ EmptyQuestion
    \/ SkipSaveRaises
    \/ ClassifyHelp
    \/ LoadFeedsRaises
    \/ NoData
    \/ LoadFeeds
    \/ Generate
    \/ GenerateRaises
    \/ DeliverDryRun
    \/ DeliverPost
    \/ DeliverPostRaises
    \/ LogInteraction
    \/ LogInteractionRaises
    \/ RecordProcessed
    \/ RecordSaveRaises
    \/ Sleep5
    \/ LoopEnd
    \/ PollSleep

SpecDaemon == InitDaemon /\ [][NextDaemon]_vars /\ WF_vars(NextDaemon)


\* The daemon on a platform whose mastodon.notifications and status_reply
\* calls always return: every other call of the loop body may raise.
InitQueue ==
    /\ mode = "daemon"
    /\ dry_run \in BOOLEAN
    /\ cat_max_files = CAT_MAX_FILES
    /\ pc = "start"
    /\ processed = {}
    /\ pfile = NoFile
    /\ inbox \in Batches
    /\ notifications = <<>>
    /\ idx = 1
    /\ cur = NoCur
    /\ reply_posted = Zero
    /\ post_calls = Zero
    /\ llm_calls = Zero
    /\ feed_loads = Zero
    /\ last_post = NoPost
    /\ passes = 0
    /\ restarts = 0
    /\ post_gap = "clear"
    /\ dry_reported = {}
    /\ dry_recorded = {}
    /\ store = BotStore
    /\ call = NoCall
    /\ prev = BotStore
    /\ arxiv_max_trial = 2
    /\ fpc = "off"
    /\ cat = None
    /\ trial_num = 0
    /\ retrieved = <<>>
    /\ sleeps = 0
    /\ returned = <<>>
    /\ elapsed = 0
    /\ num_calls = 0
    /\ since_admit = arxiv_call_period
    /\ since_retrieve = arxiv_call_period
    /\ eval = NoEval
    /\ instances = NoInstances
    /\ lost = {}
    /\ late = {}
    /\ cli = NoCli

NextQueue ==
    \/ Start
    \/ FetchMentions
    \/ DedupSkip
    \/ FilterDrop
    \/ EmptyQuestion
    \/ SkipSaveRaises
    \/ ClassifyHelp
    \/ LoadFeedsRaises
    \/ NoData
    \/ LoadFeeds
    \/ Generate
    \/ GenerateRaises
    \/ DeliverDryRun
    \/ DeliverPost
    \/ LogInteraction
    \/ LogInteractionRaises
    \/ RecordProcessed
    \/ RecordSaveRaises
    \/ Sleep5
    \/ LoopEnd
    \/ PollSleep

SpecQueue == InitQueue /\ [][NextQueue]_vars

(***************************************************************************)
(* Two bot processes started with --daemon on the same LOG_DIR and the     *)
(* same account: each runs run_reply_bot with its own `processed`, both    *)
(* read and write the one processed-identifiers file.  The mentions are    *)
(* public questions, which the loop body answers.                          *)
(***************************************************************************)
\* notifications[idx] of process i
TwoNotif(i) == instances[i].notifications[instances[i].idx]
TwoAtMention(i) ==
    /\ instances[i].pc = "mention"
    /\ instances[i].idx <= Len(instances[i].notifications)

\* line 355: processed = load_processed()
TwoStart(i) ==
    /\ instances[i].pc = "start"
    /\ instances' = [instances EXCEPT ![i].processed = load_processed(pfile),
                                      ![i].missed = lost \ load_processed(pfile),
                                      ![i].pc = "fetch"]
    /\ UNCHANGED <<botVars, storeVars, fetchVars, eval, lost, late, cli>>

\* line 368: notifications = mastodon.notifications(types=["mention"])
TwoFetch(i) ==
    /\ instances[i].pc = "fetch"
    /\ instances[i].passes < MaxPasses
    /\ instances' = [instances EXCEPT ![i].notifications = inbox,
                                      ![i].idx = 1,
                                      ![i].passes = @ + 1,
                                      ![i].pc = "mention"]
    /\ UNCHANGED <<botVars, storeVars, fetchVars, eval, lost, late, cli>>

\* lines 373-374: if notif_id in processed: continue
TwoDedupSkip(i) ==
    /\ TwoAtMention(i)
    /\ TwoNotif(i) \in instances[i].processed
    /\ instances' = [instances EXCEPT ![i].idx = @ + 1]
    /\ UNCHANGED <<botVars, storeVars, fetchVars, eval, lost, late, cli>>

\* lines 376-439: the mention is answered, status_reply posts the reply
TwoReply(i) ==
    /\ TwoAtMention(i)
    /\ TwoNotif(i) \notin instances[i].processed
    /\ reply_posted' = [reply_posted EXCEPT ![TwoNotif(i)] = @ + 1]
    /\ late' = IF TwoNotif(i) \in instances[i].missed
               THEN late \cup {TwoNotif(i)} ELSE late
    /\ instances' = [instances EXCEPT ![i].pc = "record"]
    /\ UNCHANGED <<mode, post_gap, dry_reported, dry_recorded, cat_max_files, inbox, dry_run, pc, processed, pfile,
                   notifications, idx, cur, post_calls, llm_calls, feed_loads,
                   last_post, passes, restarts, storeVars, fetchVars, eval, lost, cli>>

\* lines 441-444: processed.add(notif_id); save_processed(processed); sleep
TwoRecord(i) ==
    /\ instances[i].pc = "record"
    /\ LET added == instances[i].processed \cup {TwoNotif(i)} IN
       /\ pfile' = save_processed(added)
       /\ lost' = (lost \cup ListToSet(pfile.ids)) \ ListToSet(pfile'.ids)
       /\ instances' = [instances EXCEPT ![i].processed = added,
                                         ![i].idx = @ + 1,
                                         ![i].pc = "mention"]
    /\ UNCHANGED <<mode, post_gap, dry_reported, dry_recorded, cat_max_files, inbox, dry_run, pc, processed,
                   notifications, idx, cur, reply_posted, post_calls, llm_calls,
                   feed_loads, last_post, passes, restarts, storeVars, fetchVars,
                   eval, late, cli>>

\* the for loop is exhausted
TwoLoopEnd(i) ==
    /\ instances[i].pc = "mention"
    /\ instances[i].idx > Len(instances[i].notifications)
    /\ instances' = [instances EXCEPT ![i].notifications = <<>>,
                                      ![i].idx = 1,
                                      ![i].pc = "pollsleep"]
    /\ UNCHANGED <<botVars, storeVars, fetchVars, eval, lost, late, cli>>

\* line 449: time.sleep(POLL_INTERVAL)
TwoPollSleep(i) ==
    /\ instances[i].pc = "pollsleep"
    /\ instances' = [instances EXCEPT ![i].pc = "fetch"]
    /\ UNCHANGED <<botVars, storeVars, fetchVars, eval, lost, late, cli>>

\* the process is killed and started again: its memory is gone, the file stays
TwoRestart(i) ==
    /\ instances[i].pc # "start"
    /\ instances[i].restarts < MaxRestarts
    /\ instances' = [instances EXCEPT ![i] =
                        [NoInstance EXCEPT !.pc = "start",
                                           !.passes = instances[i].passes,
                                           !.restarts = instances[i].restarts + 1]]
    /\ UNCHANGED <<botVars, storeVars, fetchVars, eval, lost, late, cli>>

\* somebody mentions the bot: the notification list is newest first
MentionArrives ==
    /\ \E id \in TwoIds \ ListToSet(inbox) : inbox' = <<id>> \o inbox
    /\ UNCHANGED <<mode, post_gap, dry_reported, dry_recorded, cat_max_files, dry_run, pc, processed, pfile,
                   notifications, idx, cur, reply_posted, post_calls, llm_calls,
                   feed_loads, last_post, passes, restarts, storeVars, fetchVars,
                   eval, twoVars, cli>>

InitTwo ==
    /\ eval = NoEval
    /\ instances = [i \in Instances |-> [NoInstance EXCEPT !.pc = "start"]]
    /\ lost = {}
    /\ late = {}
    /\ cli = NoCli
    /\ mode = "daemon"
    /\ dry_run = FALSE
    /\ cat_max_files = CAT_MAX_FILES
    /\ pc = "off"
    /\ processed = {}
    /\ pfile = NoFile
    /\ inbox = <<>>
    /\ notifications = <<>>
    /\ idx = 1
    /\ cur = NoCur
    /\ reply_posted = Zero
    /\ post_calls = Zero
    /\ llm_calls = Zero
    /\ feed_loads = Zero
    /\ last_post = NoPost
    /\ passes = 0
    /\ restarts = 0
    /\ post_gap = "clear"
    /\ dry_reported = {}
    /\ dry_recorded = {}
    /\ store = EmptyStore
    /\ call = NoCall
    /\ prev = EmptyStore
    /\ arxiv_max_trial = 2
    /\ fpc = "off"
    /\ cat = None
    /\ trial_num = 0
    /\ retrieved = <<>>
    /\ sleeps = 0
    /\ returned = <<>>
    /\ elapsed = 0
    /\ num_calls = 0
    /\ since_admit = arxiv_call_period
    /\ since_retrieve = arxiv_call_period

NextTwo ==
    \/ \E i \in Instances : TwoStart(i)
    \/ \E i \in Instances : TwoFetch(i)
    \/ \E i \in Instances : TwoDedupSkip(i)
    \/ \E i \in Instances : TwoReply(i)
    \/ \E i \in Instances : TwoRecord(i)
    \/ \E i \in Instances : TwoLoopEnd(i)
    \/ \E i \in Instances : TwoPollSleep(i)
    \/ \E i \in Instances : TwoRestart(i)
    \/ MentionArrives

SpecTwo == InitTwo /\ [][NextTwo]_vars

\* get_available_categories: the categories named by the files of DATA_DIR
get_available_categories(st) == {n[2] : n \in GlobAll(st)}

\* what the user can type after /cat, /mode and /files
CatArgs == Cats \cup {"q-bio.XX"}
FilesArgs == {"abc", "", "2.5", "-1", "0", "1", "2", "+3"}

\* int(question[7:].strip()): the number, or ValueError
int_of(str) ==
    IF str = "-1" THEN [ok |-> TRUE, value |-> 0 - 1]
    ELSE IF str = "0" THEN [ok |-> TRUE, value |-> 0]
    ELSE IF str = "1" THEN [ok |-> TRUE, value |-> 1]
    ELSE IF str = "2" THEN [ok |-> TRUE, value |-> 2]
    ELSE IF str = "+3" THEN [ok |-> TRUE, value |-> 3]
    ELSE [ok |-> FALSE, value |-> 0]

\* /mode taking any word for a mode
mode_ok_Any(new_mode) == TRUE

\* line 290: new_mode in ["title", "first_sentence", "full_abstract"]
mode_ok(new_mode) == new_mode \in Modes3

\* the papers = load_feeds(current_category, files=current_files) of lines
\* 282, 302 and 326 raises on a file it cannot parse
CliLoadRaises(session) ==
    load_feeds(store, session.current_category, session.current_files,
               SKIP_EMPTY).raised

\* lines 277-287: /cat <category>; an exception of load_feeds leaves run_cli
CliCat ==
    /\ cli.pc = "prompt"
    /\ \E new_cat \in CatArgs :
         LET accepted == new_cat \in get_available_categories(store)
             session == IF accepted
                        THEN [cli.session EXCEPT !.current_category = new_cat]
                        ELSE cli.session
         IN  cli' = [pc |-> IF accepted /\ CliLoadRaises(session)
                            THEN "crashed" ELSE "prompt",
                     session |-> session,
                     before |-> cli.session,
                     last |-> [cmd |-> "cat", arg |-> new_cat,
                               rejected |-> ~accepted]]
    /\ UNCHANGED <<botVars, storeVars, fetchVars, eval, twoVars>>

\* lines 289-296: /mode <mode>
CliMode ==
    /\ cli.pc = "prompt"
    /\ \E new_mode \in ModeArgs :
         cli' = [cli EXCEPT !.session = IF mode_ok(new_mode)
                                        THEN [cli.session EXCEPT !.mode = new_mode]
                                        ELSE cli.session,
                            !.before = cli.session,
                            !.last = [cmd |-> "mode", arg |-> new_mode,
                                      rejected |-> ~mode_ok(new_mode)]]
    /\ UNCHANGED <<botVars, storeVars, fetchVars, eval, twoVars>>

\* lines 298-309: /files <n>; the ValueError that json.load raises inside
\* load_feeds is caught by the except clause of line 307 like the one of int
CliFiles ==
    /\ cli.pc = "prompt"
    /\ \E str \in FilesArgs :
         LET new_files == int_of(str)
             accepted == new_files.ok /\ ~(new_files.value < 1)
             session == IF accepted
                        THEN [cli.session EXCEPT !.current_files = new_files.value]
                        ELSE cli.session
         IN  cli' = [cli EXCEPT !.session = session,
                                !.before = cli.session,
                                !.last = [cmd |-> "files", arg |-> str,
                                          rejected |-> \/ ~accepted
                                                       \/ CliLoadRaises(session)]]
    /\ UNCHANGED <<botVars, storeVars, fetchVars, eval, twoVars>>

\* lines 319-342: a question; the category it names becomes the current one
\* when it is available
CliQuestion ==
    /\ cli.pc = "prompt"
    /\ \E detected_cat \in Cats :
         LET session ==
                 IF /\ detected_cat # DEFAULT_CATEGORY
                    /\ detected_cat # cli.session.current_category
                    /\ detected_cat \in get_available_categories(store)
                 THEN [cli.session EXCEPT !.current_category = detected_cat]
                 ELSE cli.session
         IN  cli' = [pc |-> IF CliLoadRaises(session) THEN "crashed" ELSE "prompt",
                     session |-> session,
                     before |-> cli.session,
                     last |-> [cmd |-> "question", arg |-> detected_cat,
                               rejected |-> FALSE]]
    /\ UNCHANGED <<botVars, storeVars, fetchVars, eval, twoVars>>

\* lines 270-272: /quit
CliQuit ==
    /\ cli.pc = "prompt"
    /\ cli' = [cli EXCEPT !.pc = "quit", !.before = cli.session,
                          !.last = [cmd |-> "quit", arg |-> "", rejected |-> FALSE]]
    /\ UNCHANGED <<botVars, storeVars, fetchVars, eval, twoVars>>

\* python rag_toXiv_reply_bot.py --cli [--title | --full-abstract]
\*        [--category <cat>] [--cat-max-files <n>]
InitCli ==
    /\ store \in {BotStore, FullStore}
    /\ prev = store
    /\ \E m \in Modes3, category \in {None, "math.CO"}, files \in 1..MaxLoad :
         cli = [NoCli EXCEPT !.pc = "prompt",
                             !.session = [current_category |->
                                              IF category # None THEN category
                                              ELSE DEFAULT_CATEGORY,
                                          mode |-> m,
                                          current_files |-> files],
                             !.before = [current_category |->
                                             IF category # None THEN category
                                             ELSE DEFAULT_CATEGORY,
                                         mode |-> m,
                                         current_files |-> files]]
    /\ eval = NoEval
    /\ instances = NoInstances
    /\ lost = {}
    /\ late = {}
    /\ mode = "once"
    /\ dry_run = FALSE
    /\ cat_max_files = CAT_MAX_FILES
    /\ pc = "off"
    /\ processed = {}
    /\ pfile = NoFile
    /\ inbox = <<>>
    /\ notifications = <<>>
    /\ idx = 1
    /\ cur = NoCur
    /\ reply_posted = Zero
    /\ post_calls = Zero
    /\ llm_calls = Zero
    /\ feed_loads = Zero
    /\ last_post = NoPost
    /\ passes = 0
    /\ restarts = 0
    /\ post_gap = "clear"
    /\ dry_reported = {}
    /\ dry_recorded = {}
    /\ call = NoCall
    /\ arxiv_max_trial = 2
    /\ fpc = "off"
    /\ cat = None
    /\ trial_num = 0
    /\ retrieved = <<>>
    /\ sleeps = 0
    /\ returned = <<>>
    /\ elapsed = 0
    /\ num_calls = 0
    /\ since_admit = arxiv_call_period
    /\ since_retrieve = arxiv_call_period

NextCli ==
    \/ CliCat
    \/ CliMode
    \/ CliFiles
    \/ CliQuestion
    \/ CliQuit

SpecCli == InitCli /\ [][NextCli]_vars

\* the context builder called on its own
InitContext ==
    /\ eval = NoEval
    /\ instances = NoInstances
    /\ lost = {}
    /\ late = {}
    /\ cli = NoCli
    /\ mode = "once"
    /\ dry_run = FALSE
    /\ cat_max_files = CAT_MAX_FILES
    /\ pc = "off"
    /\ processed = {}
    /\ pfile = NoFile
    /\ inbox = <<>>
    /\ notifications = <<>>
    /\ idx = 1
    /\ cur = NoCur
    /\ reply_posted = Zero
    /\ post_calls = Zero
    /\ llm_calls = Zero
    /\ feed_loads = Zero
    /\ last_post = NoPost
    /\ passes = 0
    /\ restarts = 0
    /\ post_gap = "clear"
    /\ dry_reported = {}
    /\ dry_recorded = {}
    /\ store = EmptyStore
    /\ call = NoCall
    /\ prev = EmptyStore
    /\ arxiv_max_trial = 2
    /\ fpc = "off"
    /\ cat = None
    /\ trial_num = 0
    /\ retrieved = <<>>
    /\ sleeps = 0
    /\ returned = <<>>
    /\ elapsed = 0
    /\ num_calls = 0
    /\ since_admit = arxiv_call_period
    /\ since_retrieve = arxiv_call_period

NextContext ==
    \/ FirstSentence
    \/ BuildContext
    \/ Evaluated

SpecContext == InitContext /\ [][NextContext]_vars

(***************************************************************************)
(* Claims about the reply bot (SpecPoller)                                 *)
(***************************************************************************)
FileIds == ListToSet(pfile.ids)
Entries(id) == Cardinality({i \in 1..Len(pfile.ids) : pfile.ids[i] = id})
InLoop == pc \in {"mention", "generate", "deliver", "log", "record", "sleep5"}
REPLY_LIMIT == MAX_TOOT_LENGTH - 100

\* C1: a mention delivered in several polling passes or run-once executions
\* gets one posted reply and one entry in the processed-identifiers file,
\* never more.
C1_Idempotent ==
    \A id \in Ids : reply_posted[id] <= 1 /\ Entries(id) <= 1

\* C2: when the process stops between the handling of two mentions (in
\* time.sleep(5) or at the head of the for loop), every mention already
\* replied to and every identifier already recorded in memory is in the
\* processed-identifiers file, so that a restart neither replies again nor
\* misses a recorded identifier.
C2_CrashDurable ==
    [][(pc \in {"sleep5", "mention"} /\ pc' = "crashed")
        => \A id \in Ids :
              (reply_posted[id] > 0 \/ id \in processed) => id \in FileIds]_vars

C4_VisibilityFilter ==
    /\ \A id \in Ids :
          Mentions[id].visibility \notin {"public", "unlisted"}
              => feed_loads[id] = 0 /\ llm_calls[id] = 0 /\ post_calls[id] = 0
    /\ InLoop =>
          \A j \in 1..Len(notifications) :
              (j < idx /\ Mentions[notifications[j]].visibility
                              \notin {"public", "unlisted"})
                  => notifications[j] \in processed

\* The loop has passed the direct mention m3 and the private mention m4.
C4_Witness ==
    /\ pc = "mention"
    /\ idx = 3
    /\ notifications = <<"m3", "m4">>
    /\ processed = {"m3", "m4"}

\* C5: the text of every status_reply call has at most MAX_TOOT_LENGTH - 100
\* characters; a reply longer than that is posted as its first
\* MAX_TOOT_LENGTH - 103 characters followed by "...", exactly
\* MAX_TOOT_LENGTH - 100 characters; a reply within the limit is posted
\* unchanged.
C5_TruncationBound ==
    last_post # NoPost =>
        /\ TextLen(last_post.status) <= REPLY_LIMIT
        /\ TextLen(last_post.raw) > REPLY_LIMIT =>
              /\ TextSlice(last_post.status, REPLY_LIMIT - 3)
                    = TextSlice(last_post.raw, REPLY_LIMIT - 3)
              /\ last_post.status
                    = TextConcat(TextSlice(last_post.raw, REPLY_LIMIT - 3),
                                 Ellipsis)
              /\ TextLen(last_post.status) = REPLY_LIMIT
        /\ TextLen(last_post.raw) <= REPLY_LIMIT =>
              last_post.status = last_post.raw

\* An LLM reply of 6890 characters was posted cut to 4900.
C5_Witness ==
    /\ last_post.to = "m1"
    /\ TextLen(last_post.raw) = 6890
    /\ TextLen(last_post.status) = 4900

\* C6: a process running with dry_run makes no post call; without dry_run a
\* mention that reaches the delivery step gets exactly one status_reply call,
\* to that mention and with visibility "unlisted", unless the process is
\* killed before the call.
C6_DryRunDelivery ==
    [][/\ dry_run =>
            /\ post_calls' = post_calls
            /\ reply_posted' = reply_posted
            /\ last_post' = NoPost
       /\ (~dry_run /\ pc = "deliver") =>
            \/ /\ pc' = "crashed"
               /\ post_calls' = post_calls
               /\ last_post' = NoPost
            \/ /\ post_calls' = [post_calls EXCEPT ![notif_id] = @ + 1]
               /\ last_post'.to = notif_id
               /\ last_post'.visibility = "unlisted"]_vars

\* After m1 (public) was answered with an unlisted reply, a restarted dry-run
\* process has taken the help request m5 through the delivery step without a
\* post call.
C6_Witness ==
    /\ dry_run
    /\ pc = "log"
    /\ notifications[idx] = "m5"
    /\ post_calls["m1"] = 1
    /\ post_calls["m5"] = 0

(***************************************************************************)
(* Claims about the snapshot store (SpecStore)                             *)
(***************************************************************************)
Files(st) == {n \in Names : st[n].kind # "absent"}
FilesOf(st, c) == {n \in Files(st) : n[2] = c}
Deleted == Files(prev) \ Files(store)
\* a file counts as an empty snapshot only if it can be read and holds no paper
EmptySnapshot(st, n) == st[n].kind = "json" /\ Len(st[n].papers) = 0
NonEmptyOf(st, c) == {n \in FilesOf(st, c) : ~EmptySnapshot(st, n)}
Untouched(S) == \A n \in S : store[n] = prev[n]

\* C7: a save writes the file named by (date of feed.updated, category) and
\* no other; the file then holds exactly the saved snapshot, whatever it held
\* before, and a save on an existing key adds no file.
C7_OneFilePerKey ==
    (call.op = "save" /\ ~call.dry_run) =>
        LET key == <<call.n, call.category>> IN
        /\ call.path = key
        /\ store[key].kind = "json"
        /\ store[key].papers = call.papers
        /\ Untouched(Names \ {key})
        /\ Cardinality(Files(store)) = Cardinality(Files(prev) \cup {key})

\* A save has replaced a snapshot stored under the same key by different data.
C7_Witness ==
    /\ call.op = "save"
    /\ ~call.dry_run
    /\ prev[<<call.n, call.category>>].kind = "json"
    /\ prev[<<call.n, call.category>>].papers # call.papers
    /\ store[<<call.n, call.category>>].papers = call.papers

\* C8: cleanup_by_cat_max_files(N, category, skip_empty=True) on a category
\* with K > N non-empty files returns K - N and deletes exactly the K - N
\* non-empty files of the category that come first in name order (the
\* oldest); the N newest non-empty files, every empty snapshot of the
\* category and every file of another category stay as they were.
C8_CountRetention ==
    (/\ call.op = "cleanup_by_cat_max_files"
     /\ call.skip_empty
     /\ ~call.dry_run
     /\ call.category # None
     /\ call.n < Cardinality(NonEmptyOf(prev, call.category))) =>
        LET K == Cardinality(NonEmptyOf(prev, call.category)) IN
        /\ call.ret = K - call.n
        /\ Cardinality(Deleted) = K - call.n
        /\ Deleted \subseteq NonEmptyOf(prev, call.category)
        /\ \A d \in Deleted :
              \A k \in NonEmptyOf(prev, call.category) \ Deleted : d[1] < k[1]
        /\ Untouched(Names \ Deleted)

\* With N = 1, the older of two non-empty cs.LG snapshots was deleted and the
\* empty snapshot older than both was kept.
C8_Witness ==
    /\ call.op = "cleanup_by_cat_max_files"
    /\ call.skip_empty
    /\ ~call.dry_run
    /\ call.category = "cs.LG"
    /\ call.n = 1
    /\ call.ret = 1
    /\ EmptySnapshot(prev, <<1, "cs.LG">>)
    /\ prev[<<2, "cs.LG">>].kind = "json"
    /\ ~EmptySnapshot(prev, <<2, "cs.LG">>)
    /\ prev[<<3, "cs.LG">>].kind = "json"
    /\ ~EmptySnapshot(prev, <<3, "cs.LG">>)
    /\ Files(store) = {<<1, "cs.LG">>, <<3, "cs.LG">>}

\* C9: cleanup_old_files(days, category) without dry_run deletes exactly the
\* candidate files whose name starts with a date strictly before now - days,
\* returns their number and leaves every other file as it was: a file dated
\* at the cutoff and a file whose prefix is no date are kept.
C9_AgeRetention ==
    (call.op = "cleanup_old_files" /\ ~call.dry_run) =>
        LET candidates == IF call.category = None THEN Files(prev)
                          ELSE FilesOf(prev, call.category)
            cutoff == call.now - call.n
        IN  /\ Deleted = {n \in candidates : n[1] # BadPrefix /\ n[1] < cutoff}
            /\ call.ret = Cardinality(Deleted)
            /\ Untouched(Names \ Deleted)

\* Of a file dated the day before the cutoff, a file dated at the cutoff and a
\* file with no date in its name, only the first was deleted.
C9_Witness ==
    /\ call.op = "cleanup_old_files"
    /\ ~call.dry_run
    /\ call.ret = 1
    /\ \E c \in StoreCats :
         LET cutoff == call.now - call.n IN
         /\ cutoff - 1 \in Days
         /\ cutoff \in Days
         /\ <<cutoff - 1, c>> \in Deleted
         /\ {<<cutoff, c>>, <<BadPrefix, c>>} \subseteq Files(store)

(***************************************************************************)
(* Claims about the feed fetcher (SpecFetch)                               *)
(***************************************************************************)
Retrievals == Len(retrieved)
EarlierAllEmpty == \A i \in 1..(Retrievals - 1) : Len(retrieved[i].entries) = 0

\* C10: one call of daily_entries retrieves at most arxiv_max_trial feeds;
\* every attempt before the one that returns got an empty entry list and was
\* followed by exactly one sleep; a non-empty list is returned by the attempt
\* that retrieved it, and the last attempt allowed returns its feed empty or
\* not; the feed returned is the last one retrieved.  The bozo flag appears
\* nowhere in this: the entry lists alone fix the number of retrievals.
C10_RetryPolicy ==
    /\ Retrievals <= arxiv_max_trial
    /\ EarlierAllEmpty
    /\ fpc = "returned" =>
          /\ Retrievals >= 1
          /\ sleeps = Retrievals - 1
          /\ returned = <<retrieved[Retrievals]>>
          /\ (Len(retrieved[Retrievals].entries) > 0 \/ Retrievals = arxiv_max_trial)
    /\ fpc = "retry" =>
          /\ Retrievals >= 1
          /\ Retrievals < arxiv_max_trial
          /\ sleeps = Retrievals - 1
          /\ Len(retrieved[Retrievals].entries) = 0
          /\ returned = <<>>
    /\ fpc = "retrieve" =>
          /\ Retrievals < arxiv_max_trial
          /\ sleeps = Retrievals
          /\ (Retrievals >= 1 => Len(retrieved[Retrievals].entries) = 0)
          /\ returned = <<>>

\* With three attempts allowed, two empty feeds (the first one flagged bozo)
\* were each followed by a sleep and the third, empty too, was returned.
C10_Witness ==
    /\ fpc = "returned"
    /\ arxiv_max_trial = 3
    /\ Retrievals = 3
    /\ sleeps = 2
    /\ retrieved[1].bozo
    /\ Len(returned[1].entries) = 0

\* C11: the limiter lets a call into daily_entries only when at least
\* arxiv_call_period seconds have gone by since it let the previous one in,
\* and a call that has to wait is let in afterwards, never turned away.
C11_RateLimit ==
    [][/\ (fpc = "limiter" /\ fpc' = "retrieve")
              => since_admit >= arxiv_call_period
       /\ fpc = "limiter" => fpc' \in {"limiter", "retrieve"}]_vars

(***************************************************************************)
(* Claims about one run_once execution (SpecOnce)                          *)
(***************************************************************************)
\* the snapshots of category c that hold papers, and the n newest of them
WithPapers(c) == {f \in FilesOf(store, c) : ~EmptySnapshot(store, f)}
Newest(c, n) ==
    {f \in WithPapers(c) : Cardinality({g \in WithPapers(c) : g[1] > f[1]}) < n}
RECURSIVE NewestFirst(_)
NewestFirst(S) ==
    IF S = {} THEN <<>>
    ELSE LET f == CHOOSE g \in S : \A h \in S : h[1] <= g[1]
         IN  store[f].papers \o NewestFirst(S \ {f})
Expected == NewestFirst(Newest(category_of(notif_id), cat_max_files))

\* C12: the papers handed to generate_reply are those of the cat_max_files
\* newest snapshots of the resolved category that hold papers (all of them if
\* there are fewer), newest file first, empty snapshots neither read into the
\* list nor counted; when there is none the reply is the no-data message and
\* generate_reply is not called.
C12_BuildContext ==
    /\ pc = "generate" =>
          /\ cur.papers = Expected
          /\ cur.papers # <<>>
    /\ (pc \in {"deliver", "log", "record"} /\ cur.category # "help") =>
          IF Expected = <<>>
          THEN /\ llm_calls[notif_id] = 0
               /\ cur.papers = <<>>
               /\ pc = "deliver" => cur.reply_text \in NoDataTexts
          ELSE /\ llm_calls[notif_id] = 1
               /\ cur.papers = Expected

\* With files = 2, the snapshots of day 3 and day 1 were loaded, in that
\* order, over the empty snapshot of day 2.
C12_Witness ==
    /\ pc = "generate"
    /\ cat_max_files = 2
    /\ EmptySnapshot(store, <<2, "cs.LG">>)
    /\ cur.category = "cs.LG"
    /\ cur.papers = <<3, 1>>

\* what each mention that can be answered asks for
ExpectedRoute ==
    [m1 |-> DEFAULT_CATEGORY,   \* no help phrase, no category pattern
     m2 |-> "cs.AI",            \* two category patterns: the first one
     m5 |-> "help",             \* "Helpful" holds the phrase "help"; math.CO is ignored
     m7 |-> "math.CO"]          \* a category other than the default

C14_ModeValidation ==
    eval.op = "build_context" => (eval.raised <=> eval.mode \notin Modes3)

\* the periods of a text that are followed by a space, a newline or a tab
Boundaries(text) == Ends(text, " ") \cup Ends(text, "\n") \cup Ends(text, "\t")

\* the text through the period of its leftmost sentence boundary; without a
\* boundary, its first CutLength characters and the ellipsis
LeftmostSentence(text) ==
    IF Boundaries(text) # {}
    THEN SubSeq(text, 1, CHOOSE i \in Boundaries(text) :
                            \A j \in Boundaries(text) : i <= j)
    ELSE TextConcat(TextSlice(text, CutLength), Ellipsis)

\* C15: first_sentence returns the text up to and including the period of the
\* leftmost period-space, period-newline or period-tab, and only when none of
\* the three occurs the first 200 characters followed by the ellipsis.
C15_FirstSentence ==
    eval.op = "first_sentence" => eval.out = LeftmostSentence(eval.text)

\* the files of a category that the retention count counts: every file but
\* the readable snapshots without papers
CountedOf(st, c) == {n \in FilesOf(st, c) : ~EmptySnapshot(st, n)}
CleanedCats ==
    IF call.category # None THEN {call.category}
    ELSE {n[2] : n \in Files(prev)}

Raising ==
    \/ FetchMentionsRaises
    \/ SkipSaveRaises
    \/ LoadFeedsRaises
    \/ GenerateRaises
    \/ DeliverPostRaises
    \/ LogInteractionRaises
    \/ RecordSaveRaises

\* C17: in continuous mode an exception raised at any step of a poll
\* iteration never ends the loop: the raising step goes to the poll-interval
\* sleep, the poller is never terminated, the sleep is always followed by the
\* next fetch, and the poller makes every fetch the bound on passes counts.
C17_ErrorContainment ==
    /\ [][Raising => pc' = "pollsleep"]_vars
    /\ [](pc \notin {"crashed", "done", "final_save"})
    /\ (pc = "pollsleep") ~> (pc = "fetch")
    /\ <>(passes = MaxPasses)

\* status_reply raised in the first pass (a call without a posted reply), and
\* the poller has slept and fetched the mentions a second time.
C17_Witness ==
    /\ mode = "daemon"
    /\ passes = 2
    /\ pc = "mention"
    /\ \E id \in Ids : post_calls[id] = 1 /\ reply_posted[id] = 0

\* C18: when every call returns, run_once fetches the mentions exactly once,
\* passes over the fetched mentions one by one in list order handling each at
\* most once, writes the processed-identifiers file exactly once, after the
\* last mention, and then ends: it reaches its end in every run, and never
\* sleeps the poll interval or fetches again.
C18_RunOncePass ==
    /\ <>(pc = "done")
    /\ [](pc = "done" => passes = 1)
    /\ [](pc \notin {"pollsleep", "crashed"})
    /\ [][/\ passes' # passes => pc = "fetch" /\ passes = 0 /\ passes' = 1
          /\ idx' # idx =>
                \/ idx <= Len(notifications) /\ idx' = idx + 1 /\ pc' = "mention"
                \/ idx > Len(notifications) /\ pc' = "final_save"
          /\ pc' = "final_save" => pc = "mention" /\ idx > Len(notifications)
          /\ \A id \in Ids : /\ feed_loads'[id] <= 1
                             /\ llm_calls'[id] <= 1
                             /\ post_calls'[id] <= 1
          /\ pfile' # pfile => /\ pc = "final_save"
                               /\ pfile' = save_processed(processed)
          /\ pc = "final_save" => pc' = "done" /\ pfile' = save_processed(processed)
          /\ pc # "done"]_vars

\* run_once has ended after one fetch of two mentions, both of them in the
\* file it wrote.
C18_Witness ==
    /\ mode = "once"
    /\ pc = "done"
    /\ passes = 1
    /\ Len(inbox) = 2
    /\ pfile.exists
    /\ \A i \in 1..Len(inbox) : inbox[i] \in ListToSet(pfile.ids)
    /\ \E id \in Ids : reply_posted[id] = 1

\* the processed file as a set


\* C19: with two bot processes on one processed-identifiers file, a save
\* writes the whole file from the saving process's own set, so an identifier
\* another process had persisted can be gone from the file afterwards; a
\* process that loads the file without it answers the mention again, and
\* every such answer is at least the second reply posted to that mention.
C19_TwoInstanceHazard ==
    /\ [][pfile' # pfile =>
            \E i \in Instances :
                /\ instances[i].pc = "record"
                /\ ListToSet(pfile'.ids) = instances'[i].processed
                /\ lost' = (lost \cup ListToSet(pfile.ids)) \ instances'[i].processed]_vars
    /\ [](\A id \in late : reply_posted[id] >= 2)

\* Process 1 persisted m1; the save of process 2, which never held m1, wrote
\* the file without it; process 1 was started again, loaded the file without
\* m1 and has posted a second reply to m1, still absent from the file.
C19_Witness ==
    /\ "m1" \in late
    /\ "m1" \in lost
    /\ "m1" \notin FileIds
    /\ "m1" \notin instances[2].processed
    /\ instances[1].restarts = 1
    /\ instances[1].pc = "record"
    /\ TwoNotif(1) = "m1"
    /\ reply_posted["m1"] = 2

\* C20: for every arxiv_max_trial >= 1 and every sequence of feeds (empty,
\* non-empty, flagged bozo) a call of daily_entries never comes to the raise
\* of line 36: an attempt goes on to line 31 only when another attempt is
\* left, because the last attempt returns its feed at line 30.
C20_NoExhaustion ==
    /\ fpc # "fatal"
    /\ fpc = "retry" => trial_num + 1 < arxiv_max_trial
    /\ fpc = "returned" => trial_num < arxiv_max_trial

\* With two attempts allowed the second, the last, got an empty feed flagged
\* bozo and returned it.
C20_Witness ==
    /\ fpc = "returned"
    /\ arxiv_max_trial = 2
    /\ trial_num = 1
    /\ Retrievals = 2
    /\ returned[1].bozo
    /\ Len(returned[1].entries) = 0

\* the n files of S that come last in name order (the newest)
NewestOf(S, n) == {f \in S : Cardinality({g \in S : g[1] > f[1]}) < n}
EmptiesOf(st, c) == {f \in FilesOf(st, c) : EmptySnapshot(st, f)}

\* C21: cleanup_by_cat_max_files with skip_empty never deletes an empty
\* snapshot and gives it no place in the count: of the other files of each
\* cleaned category the max_files newest remain, however many empty snapshots
\* lie between them.  Without skip_empty the empty snapshots are counted and
\* deleted like any other file: exactly the min(max_files, total) newest files
\* of each cleaned category remain.  Files of other categories stay.
C21_SkipEmpty ==
    (call.op = "cleanup_by_cat_max_files" /\ ~call.dry_run) =>
        /\ \A c \in CleanedCats :
              IF call.skip_empty
              THEN /\ EmptiesOf(store, c) = EmptiesOf(prev, c)
                   /\ CountedOf(store, c) = NewestOf(CountedOf(prev, c), call.n)
              ELSE /\ FilesOf(store, c) = NewestOf(FilesOf(prev, c), call.n)
                   /\ Cardinality(FilesOf(store, c)) =
                        IF call.n < Cardinality(FilesOf(prev, c))
                        THEN call.n ELSE Cardinality(FilesOf(prev, c))
        /\ Untouched(Names \ Deleted)
        /\ \A f \in Deleted : f[2] \in CleanedCats
        /\ call.ret = Cardinality(Deleted)

\* After a cleanup with max_files = 1 and skip_empty a category holds two
\* empty snapshots, more than max_files, both newer than the one non-empty
\* snapshot, which was kept all the same.
C21_Witness ==
    /\ call.op = "cleanup_by_cat_max_files"
    /\ call.skip_empty
    /\ ~call.dry_run
    /\ call.n = 1
    /\ \E c \in StoreCats :
         /\ EmptiesOf(store, c) = {<<2, c>>, <<3, c>>}
         /\ CountedOf(store, c) = {<<1, c>>}
         /\ CountedOf(prev, c) = {<<1, c>>}

\* what the call under way would have done to the store it found, run
\* without dry_run
RealRun ==
    IF call.op = "save"
    THEN LET r == save_feed_json(prev, call.category,
                                 [updated |-> call.n, papers |-> call.papers], FALSE)
         IN  [store |-> r.store, path |-> r.path, ret |-> 0]
    ELSE IF call.op = "cleanup_old_files"
    THEN LET r == cleanup_old_files(prev, call.now, call.n, call.category, FALSE)
         IN  [store |-> r.store, path |-> NoPath, ret |-> r.ret]
    ELSE LET r == cleanup_by_cat_max_files(prev, call.n, call.category,
                                           call.skip_empty, FALSE)
         IN  [store |-> r.store, path |-> NoPath, ret |-> r.ret]

\* C22: with dry_run, save_feed_json, cleanup_old_files and
\* cleanup_by_cat_max_files leave every file of the store and its contents as
\* they were; the dry-run save returns the path the real save writes, and a
\* dry-run cleanup returns the number of files the real run deletes from the
\* same store.
C22_DryRun ==
    (call # NoCall /\ call.dry_run) =>
        /\ store = prev
        /\ call.path = RealRun.path
        /\ call.ret = RealRun.ret
        /\ call.op # "save" =>
              call.ret = Cardinality(Files(prev) \ Files(RealRun.store))
        /\ call.op = "save" => RealRun.store[call.path] = Json(call.papers)

\* A dry-run count cleanup over all categories reported two files, one of
\* each of two categories, and both are still in the store.
C22_Witness ==
    /\ call.op = "cleanup_by_cat_max_files"
    /\ call.dry_run
    /\ call.category = None
    /\ call.ret = 2
    /\ store = prev
    /\ \E f, g \in Files(store) :
         /\ f[2] # g[2]
         /\ Files(prev) \ Files(RealRun.store) = {f, g}

\* a step that calls status_reply
PostCall == post_calls' # post_calls

\* C23 as stated: in continuous mode the poller completes the 5 s sleep of
\* line 444 between any two consecutive status_reply calls, within a batch
\* and across batches.
C23_InterReplyDelay == [][PostCall => post_gap = "clear"]_vars

\* C23, amended: between any two consecutive status_reply calls the poller
\* completes a sleep: the 5 s sleep of line 444 or, when the first call or a
\* step after it raised, the poll-interval sleep of line 449; the 5 s sleep
\* follows every mention recorded after a reply and is a step of its own,
\* apart from the poll-interval sleep.
C23_SleepBetweenPosts ==
    /\ [][PostCall => post_gap \in {"clear", "polled"}]_vars
    /\ [][(pc = "record" /\ pc' # "pollsleep") => pc' = "sleep5"]_vars
    /\ [][(post_gap = "posted" /\ post_gap' = "polled") =>
              pc = "pollsleep" /\ pc' = "fetch"]_vars
    /\ [][(post_gap = "posted" /\ post_gap' = "clear") =>
              pc = "sleep5" /\ pc' = "mention"]_vars

\* status_reply was called in the first pass and a step raised before the
\* 5 s sleep; after the poll-interval sleep alone the poller is about to
\* call status_reply again.
C23_Witness ==
    /\ mode = "daemon"
    /\ ~dry_run
    /\ pc = "deliver"
    /\ passes = 2
    /\ post_gap = "polled"
    /\ \E id \in Ids : post_calls[id] >= 1

\* the counts /files takes: the positive whole numbers as the user types them
PositiveCounts == {"1", "2", "+3"}
CountTyped(str) == IF str = "1" THEN 1 ELSE IF str = "2" THEN 2 ELSE 3
\* the categories with a snapshot file in the store
Stored == {f[2] : f \in Files(store)}

\* C24: in the interactive session a /cat naming a category without stored
\* snapshot, a /mode with a value other than title, first_sentence and
\* full_abstract, and a /files whose argument is no number or is below 1 are
\* rejected and leave current category, context mode and files count as they
\* were; a valid /cat, /mode or /files sets its own field to the value given
\* and leaves the other two.
C24_CommandValidation ==
    /\ cli.last.cmd = "cat" =>
          IF cli.last.arg \in Stored
          THEN cli.session = [cli.before EXCEPT !.current_category = cli.last.arg]
          ELSE cli.last.rejected /\ cli.session = cli.before
    /\ cli.last.cmd = "mode" =>
          IF cli.last.arg \in {"title", "first_sentence", "full_abstract"}
          THEN /\ cli.session = [cli.before EXCEPT !.mode = cli.last.arg]
               /\ ~cli.last.rejected
          ELSE cli.last.rejected /\ cli.session = cli.before
    /\ cli.last.cmd = "files" =>
          IF cli.last.arg \in PositiveCounts
          THEN cli.session =
                   [cli.before EXCEPT !.current_files = CountTyped(cli.last.arg)]
          ELSE cli.last.rejected /\ cli.session = cli.before

\* After a /mode and a /files that were taken, a /files 0 was rejected and
\* left the session as the two had set it.
C24_Witness ==
    /\ cli.pc = "prompt"
    /\ cli.last = [cmd |-> "files", arg |-> "0", rejected |-> TRUE]
    /\ cli.session = cli.before
    /\ cli.session = [current_category |-> DEFAULT_CATEGORY, mode |-> "title",
                      current_files |-> 3]

(***************************************************************************)
(* C25  Recorded implies handled.  Every identifier in the processed-      *)
(* identifiers file, and every identifier in the running process's set,    *)
(* belongs to a mention the visibility filter dropped, or whose text       *)
(* without the mention references is empty, or whose reply was posted or   *)
(* printed by a dry run.  A step in which the LLM call or the status_reply *)
(* call raises records nothing: the file and the set are as before and the *)
(* mention is in neither, so a later pass takes it up again.               *)
(***************************************************************************)
Handled(id) ==
    \/ ~Eligible(id)
    \/ Question(id) = <<>>
    \/ reply_posted[id] >= 1
    \/ id \in dry_reported

LLMCallRaised == llm_calls' # llm_calls /\ pc' # "deliver"
PostCallRaised == post_calls' # post_calls /\ reply_posted' = reply_posted

C25_RecordedImpliesHandled ==
    /\ [](\A id \in FileIds \cup processed : Handled(id))
    /\ [][(LLMCallRaised \/ PostCallRaised) =>
            /\ pfile' = pfile
            /\ processed' \subseteq processed
            /\ notif_id \notin processed' \cup ListToSet(pfile'.ids)]_vars

\* a mention whose LLM call was made twice is in the file after a dry run
\* printed its reply, next to one whose reply was posted
C25_Witness ==
    /\ \E id \in FileIds :
         Eligible(id) /\ Question(id) # <<>> /\ llm_calls[id] >= 2
            /\ id \in dry_reported /\ reply_posted[id] = 0
    /\ \E id \in FileIds : reply_posted[id] >= 1

(***************************************************************************)
(* C26  No head-of-line blocking.  In continuous mode with a fetch and a   *)
(* post that always return, every eligible mention with a question that    *)
(* stays in the list is replied to and recorded unless its own handling    *)
(* raised, whatever happens to the mentions before it in the list: when    *)
(* the poller has ended its last pass, each such mention is in the set and *)
(* in the file with its reply posted or printed.                           *)
(***************************************************************************)
TakenUp(id) ==
    \/ feed_loads[id] >= 1
    \/ llm_calls[id] >= 1
    \/ post_calls[id] >= 1
    \/ id \in dry_reported

\* the handling of the mention was begun and did not reach the file
OwnRaised(id) == TakenUp(id) /\ id \notin FileIds

LastPassOver == mode = "daemon" /\ passes = MaxPasses /\ pc = "pollsleep"

C26_NoHeadOfLineBlocking ==
    LastPassOver =>
        \A i \in 1..Len(inbox) :
            (Eligible(inbox[i]) /\ Question(inbox[i]) # <<>> /\ ~OwnRaised(inbox[i])) =>
                /\ inbox[i] \in processed
                /\ inbox[i] \in FileIds
                /\ reply_posted[inbox[i]] >= 1 \/ inbox[i] \in dry_reported

(***************************************************************************)
(* C27  Upstream request spacing.  Whenever afpa.retrieve is called, at    *)
(* least arxiv_call_period seconds have gone by since the previous call of *)
(* it, be the two calls two attempts of one daily_entries call or attempts *)
(* of two successive daily_entries calls, whatever the feeds hold.         *)
(***************************************************************************)
RetrieveCall == Len(retrieved') = Len(retrieved) + 1

C27_RequestSpacing ==
    [][RetrieveCall => since_retrieve >= arxiv_call_period]_vars

(***************************************************************************)
(* C28  Retention agrees with retrieval.  On a store without corrupt       *)
(* files, after cleanup_by_cat_max_files(N, category, skip_empty=True)     *)
(* with N >= 1, load_feeds(category, N, skip_empty=True) takes its papers  *)
(* from the same files as before the cleanup, these are exactly the files  *)
(* of the category with papers that remain on disk, and none of them was   *)
(* deleted.  The same holds of every category a cleanup without a category *)
(* argument goes through.                                                  *)
(***************************************************************************)
LoadedFiles(st, c, n) ==
    LoadLoopFiles(st, SortedDesc(Glob(st, c)), n, TRUE, 0, {}).files

NoCorrupt(st) == \A f \in Names : st[f] # Corrupt

RetentionCall ==
    /\ call.op = "cleanup_by_cat_max_files"
    /\ ~call.dry_run
    /\ call.skip_empty
    /\ call.n >= 1
    /\ NoCorrupt(prev)

C28_RetentionAgrees ==
    RetentionCall =>
        \A c \in CleanedCats :
            /\ LoadedFiles(store, c, call.n) = LoadedFiles(prev, c, call.n)
            /\ LoadedFiles(store, c, call.n) =
                   {f \in Glob(store, c) : store[f].papers # <<>>}
            /\ Deleted \cap LoadedFiles(prev, c, call.n) = {}

\* a cleanup with max_files = 1 deleted an older snapshot with papers and
\* left the newest one, which the loader reads past a newer empty snapshot
C28_Witness ==
    /\ RetentionCall
    /\ call.n = 1
    /\ \E c \in CleanedCats :
         /\ Deleted = {<<1, c>>}
         /\ LoadedFiles(store, c, 1) = {<<2, c>>}
         /\ store[<<3, c>>] = Json(<<>>)

(***************************************************************************)
(* C29  Dry-run consumes mentions.  A mention a dry run has handled to the *)
(* end, its reply printed and its identifier added to the processed set,   *)
(* is never replied to afterwards: no later status_reply call answers it,  *)
(* in the same process or in one started later, without dry_run, on the    *)
(* same processed-identifiers file.                                        *)
(***************************************************************************)
C29_DryRunConsumes ==
    [][\A id \in Ids :
          reply_posted'[id] > reply_posted[id] => id \notin dry_recorded]_vars

====
